---------------------------- MODULE Spec2Model ----------------------------
(***************************************************************************)
(* The risk-gated control loop of the vault agents:                        *)
(*   backend/agents/orchestrator.py     AgentOrchestrator                  *)
(*   backend/agents/risk_agent.py       RiskAgent                          *)
(*   backend/agents/execution_agent.py  ExecutionAgent                     *)
(*                                                                         *)
(* Time is counted in hours.  A monitoring cycle is one coroutine; the     *)
(* coroutines of the four places that start one (start(), the interval     *)
(* job, the research job, trigger_emergency_analysis()) interleave at      *)
(* their awaits.  The ledger (vault contract), the risk assessor, the      *)
(* audit database, Redis and the relay are the environment: each call      *)
(* returns or raises as the environment chooses.                           *)
(***************************************************************************)
EXTENDS Integers, Sequences, FiniteSets, TLC

(***************************************************************************)
(* Bounds of the model.                                                    *)
(***************************************************************************)
MaxCycles == 2      \* monitoring cycles started in one behaviour
MaxInFlight == 1    \* cycles in flight at once under Spec (SpecOverlap: all)
MaxTicks == 1       \* hours that pass in one behaviour
MaxTzOffset == 1    \* the host's time zone is within this many hours of UTC
MaxUnwind == 3      \* strategies flagged in one analysis
MaxStrategies == 4  \* strategies the ledger holds
MaxSlack == 3       \* can_rebalance is tried this many hours around the deadline
MaxTx == 3          \* signed transactions (and tx hashes) told apart
MaxLedgerChanges == 2  \* state changes of the vault during one cycle
MaxIdle == 6        \* largest idle balance execute_approved_proposal sees
MaxTvlSteps == 3    \* totalAssets is 0, 20, ... up to 20 times this
MaxRows == 3        \* rows of rebalance_proposals
MaxPairs == 2       \* from/to strategy pairs the rows are about
MaxSignals == 2     \* signals one run of the research agent builds

(***************************************************************************)
(* Program constants.                                                      *)
(***************************************************************************)
MAX_RETRIES == 3
RETRY_BACKOFF_BASE == 2
REBALANCE_COOLDOWN_DAYS == 7
HoursPerDay == 24
EMERGENCY_SCORE == 8000
AUTO_APPROVE_SCORE == 5000
DEGRADED_SCORE == 7500
PARSE_FAILURE_SCORE == 7000
NoProposalId == -1
MAX_SINGLE_REBALANCE_BPS == 1500
MIN_IDLE_BUFFER_BPS == 500
BASIS_POINTS == 10000
MIN_DEVIATION_BPS == 200
HARD_CODED_APY == 5
HARD_CODED_UTILIZATION == 75
Percent == 100

REBALANCE_COOLDOWN == REBALANCE_COOLDOWN_DAYS * HoursPerDay

(***************************************************************************)
(* The four callers of _run_monitoring_cycle.                              *)
(***************************************************************************)
Starters == {"initial", "timer", "research", "manual"}

RiskLevels == {"NORMAL", "ELEVATED", "HIGH_RISK", "CRITICAL"}

Scores == {AUTO_APPROVE_SCORE - 1, AUTO_APPROVE_SCORE,
           EMERGENCY_SCORE - 1, EMERGENCY_SCORE}

\* RiskAnalysis: the fields the control loop reads.  "kind" tells where the
\* record was built: by the assessor's answer, by analyze_risk's parse-failure
\* default, or by the retry loop's fallback ("none": no analysis yet).
MkAnalysis(kind, score, comp, level, unwind) ==
    [kind |-> kind,
     composite_score |-> score,
     protocol_risk |-> comp,
     liquidity_risk |-> comp,
     utilization_risk |-> comp,
     governance_risk |-> comp,
     oracle_risk |-> comp,
     risk_level |-> level,
     should_emergency_unwind |-> unwind]

NoAnalysis == MkAnalysis("none", 0, 0, "NORMAL", FALSE)

\* What the assessor may answer: every combination of score, level and flag
\* (the three are independent JSON fields of the answer).
AssessorAnswers ==
    { MkAnalysis("assessor", s, s, l, u) :
        s \in Scores, l \in RiskLevels, u \in BOOLEAN }

\* analyze_risk's default when the answer is not JSON.
ParseFailureAnalysis ==
    MkAnalysis("parse_failure", PARSE_FAILURE_SCORE, PARSE_FAILURE_SCORE,
               "HIGH_RISK", FALSE)

\* A fallback analysis that is ELEVATED instead of HIGH_RISK.
ConservativeAnalysisElevated ==
    MkAnalysis("degraded", DEGRADED_SCORE, DEGRADED_SCORE, "ELEVATED", FALSE)

\* _run_risk_analysis_with_retry's result when every attempt raised.
ConservativeAnalysis ==
    MkAnalysis("degraded", DEGRADED_SCORE, DEGRADED_SCORE, "HIGH_RISK", FALSE)

VARIABLES
    \* ---- orchestrator fields
    is_running,          \* AgentOrchestrator.is_running
    last_cycle_time,     \* AgentOrchestrator.last_cycle_time (-1: None)
    last_risk_analysis,  \* AgentOrchestrator.last_risk_analysis
    \* ---- one coroutine per starter
    pc,                  \* where the starter's cycle is
    calls,               \* analyze_risk calls made by the retry loop
    sleeps,              \* the asyncio.sleep waits of the retry loop, in order
    analysis,            \* risk_analysis of the cycle
    unwindRuns,          \* times the loop of _execute_emergency_unwind ran
    published,           \* what _publish_risk_update did in the cycle
    gate,                \* can_rebalance in the cycle: "none", "open", "closed"
    proposal,            \* propose_rebalance: "none", "null", "some", "raised"
    submitted,           \* how submit_proposal_onchain ended
    proposal_id,         \* what submit_proposal_onchain returned
    execSent,            \* proposal ids of the executeRebalance txs sent
    tag,                 \* REBALANCE_COUNTER label of the cycle
    cycleStatus,         \* CYCLE_COUNTER label of the cycle
    cycleNo,             \* which cycle the starter runs: 1 for the first started
    audited,             \* the cycle's risk_analysis is a row of risk_analyses
    failures,            \* where the analyze_risk calls of the retry loop raised
    \* ---- the metrics and where the status fields come from
    CYCLE_COUNTER,       \* the Prometheus counter, by status label
    riskFrom,            \* the cycle that wrote last_risk_analysis (0: none)
    timeFrom,            \* the cycle that wrote last_cycle_time (0: none)
    \* ---- environment
    now,                 \* the clock (UTC hours)
    tzOffset,            \* the host's local time zone (hours east of UTC)
    lastRebalanceTime,   \* vault.lastRebalanceTime()
    ledgerProposals,     \* vault.rebalanceProposals: id -> flags
    nextProposalId,      \* the id the vault gives the next proposal
    cyclesStarted,
    ticks,
    \* ---- one call of can_rebalance
    cd_result,           \* <<>> before the call, <<allowed, reason>> after
    \* ---- one run of _execute_emergency_unwind
    uw_pc,               \* "idle", "loop", "done"
    uw_strategies,       \* analysis.unwind_strategies
    uw_i,                \* strategies the for loop has gone through
    uw_outcome,          \* what happened to each of them
    uw_sent,             \* positions whose emergencyUnwind tx was sent
    uw_log,              \* audit rows written: [strategy, tx]
    \* ---- one call of calculate_optimal_allocation
    opt_allocations,     \* its argument, a list of StrategyAllocation
    opt_result,          \* <<>> before the call, <<optimal>> after
    \* ---- one call of propose_rebalance
    pr_ledger,           \* what the vault answers: strategies, totalAssets
    pr_result,           \* <<>> before the call, <<outcome>> after
    \* ---- one call of _submit_via_flashbots
    fb_env,              \* its argument raw_tx and what the relay and the node do
    fb_result,           \* <<>> before the call, <<outcome>> after
    \* ---- the ledger reads of one cycle
    ledgerVersion,       \* state changes of the vault so far (deposits, ...)
    ledgerReads,         \* the ledger version each read of the cycle saw
    \* ---- one call of execute_approved_proposal
    ex_env,              \* what the vault, the node and the database answer
    ex_result,           \* <<>> before the call, <<outcome>> after
    \* ---- one run of the steps of _run_monitoring_cycle
    sd_env,              \* which of the steps fail, and the risk level
    sd_result,           \* <<>> before the run, <<outcome>> after
    \* ---- the table rebalance_proposals
    db_rows,             \* its rows, in the order of their insertion
    \* ---- one call of _run_research_cycle
    rs_env,              \* what the research agent returns
    rs_result            \* <<>> before the call, <<outcome>> after

cycleVars == <<pc, calls, sleeps, analysis, unwindRuns, published, gate,
               proposal, submitted, proposal_id, execSent, tag, cycleStatus,
               cycleNo, audited, failures>>

auditVars == <<audited, failures>>

statusVars == <<CYCLE_COUNTER, riskFrom, timeFrom>>

loopVars == <<is_running, last_cycle_time, last_risk_analysis, cycleVars,
              statusVars, ledgerProposals, nextProposalId, cyclesStarted,
              ticks>>

clockVars == <<now, tzOffset, lastRebalanceTime>>

unwindVars == <<uw_pc, uw_strategies, uw_i, uw_outcome, uw_sent, uw_log>>

channelVars == <<fb_env, fb_result>>

snapshotVars == <<ledgerVersion, ledgerReads>>

executeVars == <<ex_env, ex_result>>

sideVars == <<sd_env, sd_result>>

researchVars == <<rs_env, rs_result>>

soloVars == <<executeVars, sideVars, db_rows, researchVars>>

calcVars == <<opt_allocations, opt_result, pr_ledger, pr_result, channelVars,
              snapshotVars, soloVars>>

vars == <<loopVars, clockVars, cd_result, unwindVars, calcVars>>

TzOffsets == (0 - MaxTzOffset) .. MaxTzOffset

(***************************************************************************)
(* ExecutionAgent.can_rebalance.  datetime.fromtimestamp gives the ledger's *)
(* timestamp as naive local time, datetime.utcnow the clock as naive UTC.  *)
(* The answer is <<allowed, reason>>; the reason is {} for None and        *)
(* {[days, hours]} for the text "Cooldown active. <d>d <h>h remaining".    *)
(***************************************************************************)
FromTimestamp(ts, tz) == ts + tz

UtcNow(clock) == clock

CanRebalance(clock, last_rebalance, tz) ==
    LET last_dt == FromTimestamp(last_rebalance, tz)
        time_remaining == (last_dt + REBALANCE_COOLDOWN) - UtcNow(clock)
    IN  IF UtcNow(clock) < last_dt + REBALANCE_COOLDOWN
        THEN <<FALSE, {[days |-> time_remaining \div HoursPerDay,
                        hours |-> time_remaining % HoursPerDay]}>>
        ELSE <<TRUE, {}>>

(***************************************************************************)
(* The retry loop's wait after a failed attempt (attempt counts from 0).   *)
(***************************************************************************)
\* A retry loop whose wait grows by the base times the attempt.
BackoffWaitLinear(attempt) == RETRY_BACKOFF_BASE * attempt

BackoffWait(attempt) == RETRY_BACKOFF_BASE ^ attempt

\* A retry loop that allows one attempt more.
AttemptsLeftOneMore(attempt) == attempt <= MAX_RETRIES

\* The for loop of _run_risk_analysis_with_retry goes on while attempts are left.
AttemptsLeft(attempt) == attempt < MAX_RETRIES

(***************************************************************************)
(* analyze_risk's test for the emergency unwind.                           *)
(***************************************************************************)
\* An unwind test that lets the threshold itself pass.
EmergencyTriggerStrict(a) ==
    a.composite_score > EMERGENCY_SCORE \/ a.should_emergency_unwind

EmergencyTrigger(a) ==
    a.composite_score >= EMERGENCY_SCORE \/ a.should_emergency_unwind

(***************************************************************************)
(* The end of analyze_risk (lines 291-298): the audit insert, then the     *)
(* unwind test.  r is what the call did: r.at is where it raised ("none":  *)
(* it returned) and r.a the analysis it had built.                         *)
(***************************************************************************)
\* _log_analysis returned.
AnalysisLogged(r) == r.at \in {"none", "unwind"}

\* An analyze_risk that runs the unwind before it writes the audit row.
UnwindStartsBeforeLog(r) == r.at # "assessor" /\ EmergencyTrigger(r.a)

\* _execute_emergency_unwind is called: the insert returned and the test holds.
UnwindStarts(r) == AnalysisLogged(r) /\ EmergencyTrigger(r.a)

\* An unwind whose for loop runs and whose failure then fails the attempt.
UnwindLoopRanThenRaised(r) == UnwindStarts(r)

\* The unwind went through its for loop (it did not raise at its start).
UnwindLoopRan(r) == UnwindStarts(r) /\ r.at # "unwind"

(***************************************************************************)
(* _run_monitoring_cycle's test before _check_and_execute_rebalance.       *)
(***************************************************************************)
\* A risk-level test that stops the rebalance check at CRITICAL only.
RebalanceAllowedLoose(a) == a.risk_level \notin {"CRITICAL"}

RebalanceAllowed(a) == a.risk_level \notin {"HIGH_RISK", "CRITICAL"}

(***************************************************************************)
(* _check_and_execute_rebalance's tests of the submission's result:        *)
(* "if not proposal_id" (None and 0 are both falsy in Python), then the    *)
(* auto-approve threshold.                                                 *)
(***************************************************************************)
\* A control loop that does not test the submission's result.
SubmissionFailedIgnored(pid) == FALSE

SubmissionFailed(pid) == pid = NoProposalId \/ pid = 0

AutoApprove(a) == a.composite_score < AUTO_APPROVE_SCORE

\* A control loop that submits again when the submission failed.
AfterSubmitRetry(failed, auto_approve) ==
    IF failed THEN "submit" ELSE IF auto_approve THEN "execute" ELSE "done"

\* Where _check_and_execute_rebalance goes after submit_proposal_onchain
\* (lines 311-328): out when it failed, to execute_approved_proposal when the
\* score auto-approves, out (pending approval) otherwise.
AfterSubmit(failed, auto_approve) ==
    IF failed THEN "done" ELSE IF auto_approve THEN "execute" ELSE "done"

\* A control loop that labels every execution "executed".
ExecutionTagSilent(success) == "executed"

\* The REBALANCE_COUNTER label for what execute_approved_proposal returned.
ExecutionTag(success) == IF success THEN "executed" ELSE "execution_failed"

(***************************************************************************)
(* What the environment may do to one call.                                *)
(***************************************************************************)
\* One call of analyze_risk: "at" is where it ended and a the analysis it had
\* built by then.
\*   assessor  the assessor call raised, or its answer lacks a field
\*   audit     the analysis was built, _log_analysis raised (line 292)
\*   unwind    the analysis was logged, _execute_emergency_unwind raised at its
\*             for statement: unwind_strategies is not a list (line 335)
\*   none      it returned the analysis (the assessor's answer, or the
\*             parse-failure default)
AttemptResults ==
    {[raised |-> TRUE, at |-> "assessor", a |-> NoAnalysis]} \cup
    {[raised |-> TRUE, at |-> "audit", a |-> x] :
        x \in AssessorAnswers \cup {ParseFailureAnalysis}} \cup
    {[raised |-> TRUE, at |-> "unwind", a |-> x] :
        x \in {y \in AssessorAnswers : EmergencyTrigger(y)}} \cup
    {[raised |-> FALSE, at |-> "none", a |-> x] :
        x \in AssessorAnswers \cup {ParseFailureAnalysis}}

\* propose_rebalance returns None (no pair, small deviation, amount <= 0) or
\* a proposal, or raises.
\* What redis.publish of _publish_risk_update may do.
PublishOutcomes == {"sent", "failed"}

ProposeOutcomes == {"null", "some", "raised"}

\* submit_proposal_onchain:
\*   no_address   a strategy of the proposal is not on the ledger: None
\*   send_failed  building, signing or sending raised: None
\*   timeout      the tx was sent, the wait for its receipt raised: None
\*   mined_late   as timeout, and the tx is mined afterwards
\*   no_event     the receipt holds no RebalanceProposed event: None
\*   db_failed    the ledger made the proposal, the audit update raised: None
\*   confirmed    the ledger made the proposal: its id
SubmitOutcomes ==
    {"no_address", "send_failed", "timeout", "mined_late", "no_event",
     "db_failed", "confirmed"}

\* execute_approved_proposal, once the ledger's flags are read:
\*   read_failed  reading the proposal raised
\*   idle_low     the idle buffer is under MIN_IDLE_BUFFER_BPS
\*   send_failed  building, signing or sending executeRebalance raised
\*   reverted     the receipt's status is not 1
\*   timeout      the wait for the receipt raised
\*   db_failed    status 1, the audit update raised
\*   ok           status 1, audit updated
ExecuteOutcomes ==
    {"read_failed", "idle_low", "send_failed", "reverted", "timeout",
     "db_failed", "ok"}

\* The environment in which no call fails; the assessor gives one of three
\* answers.
CalmResults ==
    {[raised |-> FALSE, at |-> "none",
      a |-> MkAnalysis("assessor", AUTO_APPROVE_SCORE - 1,
                       AUTO_APPROVE_SCORE - 1, "NORMAL", FALSE)],
     [raised |-> FALSE, at |-> "none",
      a |-> MkAnalysis("assessor", AUTO_APPROVE_SCORE,
                       AUTO_APPROVE_SCORE, "ELEVATED", FALSE)],
     [raised |-> FALSE, at |-> "none",
      a |-> MkAnalysis("assessor", EMERGENCY_SCORE,
                       EMERGENCY_SCORE, "ELEVATED", FALSE)]}

NewProposal == [approved |-> FALSE, executed |-> FALSE]

InFlight(t) == pc[t] \notin {"idle", "done"}

(***************************************************************************)
(* Initial states.                                                         *)
(***************************************************************************)
LoopIdle ==
    /\ is_running = FALSE
    /\ last_cycle_time = -1
    /\ last_risk_analysis = NoAnalysis
    /\ pc = [t \in Starters |-> "idle"]
    /\ calls = [t \in Starters |-> 0]
    /\ sleeps = [t \in Starters |-> <<>>]
    /\ analysis = [t \in Starters |-> NoAnalysis]
    /\ unwindRuns = [t \in Starters |-> 0]
    /\ published = [t \in Starters |-> "none"]
    /\ gate = [t \in Starters |-> "none"]
    /\ proposal = [t \in Starters |-> "none"]
    /\ submitted = [t \in Starters |-> "none"]
    /\ proposal_id = [t \in Starters |-> NoProposalId]
    /\ execSent = [t \in Starters |-> {}]
    /\ tag = [t \in Starters |-> "none"]
    /\ cycleStatus = [t \in Starters |-> "none"]
    /\ cycleNo = [t \in Starters |-> 0]
    /\ audited = [t \in Starters |-> FALSE]
    /\ failures = [t \in Starters |-> {}]
    /\ CYCLE_COUNTER = [success |-> 0, error |-> 0]
    /\ riskFrom = 0
    /\ timeFrom = 0
    /\ ledgerProposals = <<>>
    /\ nextProposalId = 0
    /\ cyclesStarted = 0
    /\ ticks = 0

\* No call of _submit_via_flashbots under way.
ChannelIdle ==
    /\ fb_env = [raw_tx |-> 0, relay |-> "accepted", relay_hash |-> 0,
                 public |-> <<"ok", "ok">>]
    /\ fb_result = <<>>

\* No ledger read followed.
SnapshotIdle ==
    /\ ledgerVersion = 0
    /\ ledgerReads = <<>>

\* No call of execute_approved_proposal under way.
ExecuteIdle ==
    /\ ex_env = <<>>
    /\ ex_result = <<>>

\* No run of the cycle's steps alone under way.
SideIdle ==
    /\ sd_env = <<>>
    /\ sd_result = <<>>

\* No call of _run_research_cycle under way.
ResearchIdle ==
    /\ rs_env = <<>>
    /\ rs_result = <<>>

\* None of the single calls under way, and an empty rebalance_proposals.
SoloIdle ==
    /\ ExecuteIdle
    /\ SideIdle
    /\ db_rows = <<>>
    /\ ResearchIdle

\* No call of calculate_optimal_allocation or propose_rebalance under way.
CalcIdle ==
    /\ ChannelIdle
    /\ SnapshotIdle
    /\ SoloIdle
    /\ opt_allocations = <<>>
    /\ opt_result = <<>>
    /\ pr_ledger = [strategies |-> <<>>, totalAssets |-> 0, can_rebal |-> FALSE]
    /\ pr_result = <<>>

UnwindIdle ==
    /\ uw_pc = "idle"
    /\ uw_strategies = <<>>
    /\ uw_i = 0
    /\ uw_outcome = <<>>
    /\ uw_sent = {}
    /\ uw_log = <<>>

\* The orchestrator after construction; the last rebalance was at hour 0 and
\* the cooldown is about to run out.
Init ==
    /\ LoopIdle
    /\ UnwindIdle
    /\ CalcIdle
    /\ cd_result = <<>>
    /\ now = REBALANCE_COOLDOWN - 1
    /\ tzOffset \in TzOffsets
    /\ lastRebalanceTime = 0

\* The same on a host whose local time is UTC.
InitUtc == Init /\ tzOffset = 0

(***************************************************************************)
(* The end of _run_monitoring_cycle's try block (lines 184-190).           *)
(***************************************************************************)
Finish(t) ==
    /\ last_cycle_time' = now
    /\ timeFrom' = cycleNo[t]
    /\ cycleStatus' = [cycleStatus EXCEPT ![t] = "success"]
    /\ CYCLE_COUNTER' = [CYCLE_COUNTER EXCEPT !.success = @ + 1]
    /\ pc' = [pc EXCEPT ![t] = "done"]

(***************************************************************************)
(* Where _run_monitoring_cycle goes after fetch_vault_data (line 162): on  *)
(* to the assessment, or, when the fetch raised, to the except clause of   *)
(* lines 192-194 and out.                                                  *)
(***************************************************************************)
\* A cycle that goes on to the assessment whatever the fetch did.
AfterFetchGoOn(fetched) == "assess"

AfterFetch(fetched) == IF fetched THEN "assess" ELSE "done"

(***************************************************************************)
(* _run_monitoring_cycle up to its first stage, FETCH.  A failed fetch is  *)
(* caught by the cycle's except clause and ends the cycle.  The code has   *)
(* no test of its own for a cycle in flight: limit is the number of cycles *)
(* the model lets be in flight together.                                   *)
(***************************************************************************)
Begin(t, limit, fetches) ==
    /\ pc[t] = "idle"
    /\ cyclesStarted < MaxCycles
    /\ Cardinality({u \in Starters : pc[u] # "idle"}) < limit
    /\ cyclesStarted' = cyclesStarted + 1
    /\ cycleNo' = [cycleNo EXCEPT ![t] = cyclesStarted + 1]
    /\ \E fetched \in fetches :
         /\ pc' = [pc EXCEPT ![t] = AfterFetch(fetched)]
         /\ IF fetched
            THEN /\ cycleStatus' = [cycleStatus EXCEPT ![t] = "running"]
                 /\ UNCHANGED CYCLE_COUNTER
            ELSE /\ cycleStatus' = [cycleStatus EXCEPT ![t] = "error"]
                 /\ CYCLE_COUNTER' = [CYCLE_COUNTER EXCEPT !.error = @ + 1]
    /\ UNCHANGED <<riskFrom, timeFrom, auditVars>>
    /\ UNCHANGED <<last_cycle_time, last_risk_analysis, calls, sleeps,
                   analysis, unwindRuns, published, gate, proposal, submitted,
                   proposal_id, execSent, tag, ledgerProposals,
                   nextProposalId, ticks, clockVars, cd_result, unwindVars, calcVars>>

\* start(): the jobs are scheduled, then the first cycle is awaited.
OrchestratorStart(limit, fetches) ==
    /\ ~is_running
    /\ is_running' = TRUE
    /\ Begin("initial", limit, fetches)

\* The interval job "monitoring_cycle" (the scheduler runs one instance of a
\* job at a time).
TimerJob(limit, fetches) ==
    /\ is_running
    /\ UNCHANGED is_running
    /\ Begin("timer", limit, fetches)

\* The interval job "research_cycle" found a CRITICAL signal.
ResearchJob(limit, fetches) ==
    /\ is_running
    /\ UNCHANGED is_running
    /\ Begin("research", limit, fetches)

TriggerEmergencyAnalysis(limit, fetches) ==
    /\ UNCHANGED is_running
    /\ Begin("manual", limit, fetches)

(***************************************************************************)
(* One turn of the retry loop: analyze_risk is called once.  It raises     *)
(* (at the assessor call or a missing field, at the audit insert, or at    *)
(* the start of the unwind), or it builds the analysis, logs it, runs the  *)
(* emergency unwind when the test says so, and returns.  After a raise the *)
(* loop sleeps; when no attempt is left it returns the conservative        *)
(* analysis.  The caller stores the result in last_risk_analysis.          *)
(***************************************************************************)
Attempt(t, results) ==
    /\ pc[t] = "assess"
    /\ calls' = [calls EXCEPT ![t] = @ + 1]
    /\ \E r \in results :
         IF r.raised
         THEN LET attempt == Len(sleeps[t]) IN
              /\ sleeps' = [sleeps EXCEPT ![t] = Append(@, BackoffWait(attempt))]
              /\ failures' = [failures EXCEPT ![t] =
                                 @ \cup {[at |-> r.at,
                                          emergency |-> EmergencyTrigger(r.a)]}]
              /\ unwindRuns' = [unwindRuns EXCEPT ![t] =
                                  IF UnwindLoopRan(r) THEN @ + 1 ELSE @]
              /\ audited' = audited
              /\ IF AttemptsLeft(attempt + 1)
                 THEN UNCHANGED <<analysis, last_risk_analysis, riskFrom, pc>>
                 ELSE /\ analysis' = [analysis EXCEPT ![t] = ConservativeAnalysis]
                      /\ last_risk_analysis' = ConservativeAnalysis
                      /\ riskFrom' = cycleNo[t]
                      /\ pc' = [pc EXCEPT ![t] = "publish"]
         ELSE /\ sleeps' = sleeps
              /\ failures' = failures
              /\ unwindRuns' = [unwindRuns EXCEPT ![t] =
                                  IF UnwindLoopRan(r) THEN @ + 1 ELSE @]
              /\ audited' = [audited EXCEPT ![t] = AnalysisLogged(r)]
              /\ analysis' = [analysis EXCEPT ![t] = r.a]
              /\ last_risk_analysis' = r.a
              /\ riskFrom' = cycleNo[t]
              /\ pc' = [pc EXCEPT ![t] = "publish"]
    /\ UNCHANGED <<cycleNo, timeFrom, CYCLE_COUNTER>>
    /\ UNCHANGED <<is_running, last_cycle_time, published, gate, proposal,
                   submitted, proposal_id, execSent, tag, cycleStatus,
                   ledgerProposals, nextProposalId, cyclesStarted, ticks,
                   clockVars, cd_result, unwindVars, calcVars>>

(***************************************************************************)
(* update_risk_oracle and _publish_risk_update (both swallow their own     *)
(* errors: the update reaches the subscribers, "sent", or the Redis call   *)
(* raised and was logged, "failed"), then the risk-level test of line 181. *)
(* The retry loop has returned: its locals are gone.                       *)
(***************************************************************************)
Publish(t, outs) ==
    /\ pc[t] = "publish"
    /\ \E o \in outs : published' = [published EXCEPT ![t] = o]
    /\ calls' = [calls EXCEPT ![t] = 0]
    /\ sleeps' = [sleeps EXCEPT ![t] = <<>>]
    /\ failures' = [failures EXCEPT ![t] = {}]
    /\ audited' = audited
    /\ IF RebalanceAllowed(analysis[t])
       THEN /\ pc' = [pc EXCEPT ![t] = "gate"]
            /\ UNCHANGED <<last_cycle_time, cycleStatus, timeFrom, CYCLE_COUNTER>>
       ELSE Finish(t)
    /\ UNCHANGED <<cycleNo, riskFrom>>
    /\ UNCHANGED <<is_running, last_risk_analysis, analysis, unwindRuns, gate,
                   proposal, submitted, proposal_id, execSent, tag,
                   ledgerProposals, nextProposalId, cyclesStarted, ticks,
                   clockVars, cd_result, unwindVars, calcVars>>

(***************************************************************************)
(* _check_and_execute_rebalance, the cooldown check.                       *)
(***************************************************************************)
\* A control loop that calls the proposer whatever can_rebalance answered.
AfterGateGoOn(can_rebalance) == "propose"

\* if not can_rebalance: return (lines 299-301).
AfterGate(can_rebalance) == IF can_rebalance THEN "propose" ELSE "done"

CheckCooldown(t) ==
    /\ pc[t] = "gate"
    /\ LET can_rebalance == CanRebalance(now, lastRebalanceTime, tzOffset)[1] IN
       /\ gate' = [gate EXCEPT ![t] = IF can_rebalance THEN "open" ELSE "closed"]
       /\ IF AfterGate(can_rebalance) = "done"
          THEN Finish(t)
          ELSE /\ pc' = [pc EXCEPT ![t] = AfterGate(can_rebalance)]
               /\ UNCHANGED <<last_cycle_time, cycleStatus, timeFrom,
                              CYCLE_COUNTER>>
    /\ UNCHANGED <<cycleNo, riskFrom, auditVars>>
    /\ UNCHANGED <<is_running, last_risk_analysis, calls, sleeps, analysis,
                   unwindRuns, published, proposal, submitted, proposal_id,
                   execSent, tag, ledgerProposals, nextProposalId,
                   cyclesStarted, ticks, clockVars, cd_result, unwindVars, calcVars>>

(***************************************************************************)
(* propose_rebalance as the control loop sees it: it checks the cooldown   *)
(* itself, then returns None or a proposal, or raises (caught by           *)
(* _check_and_execute_rebalance, which tags the cycle "error").            *)
(***************************************************************************)
Propose(t, outs) ==
    /\ pc[t] = "propose"
    /\ \E out \in outs :
         LET res == IF CanRebalance(now, lastRebalanceTime, tzOffset)[1]
                    THEN out ELSE "null" IN
         /\ proposal' = [proposal EXCEPT ![t] = res]
         /\ tag' = [tag EXCEPT ![t] = IF res = "raised" THEN "error" ELSE @]
         /\ IF res = "some"
            THEN /\ pc' = [pc EXCEPT ![t] = "submit"]
                 /\ UNCHANGED <<last_cycle_time, cycleStatus, timeFrom, CYCLE_COUNTER>>
            ELSE Finish(t)
    /\ UNCHANGED <<cycleNo, riskFrom, auditVars>>
    /\ UNCHANGED <<is_running, last_risk_analysis, calls, sleeps, analysis,
                   unwindRuns, published, gate, submitted, proposal_id,
                   execSent, ledgerProposals, nextProposalId, cyclesStarted,
                   ticks, clockVars, cd_result, unwindVars, calcVars>>

(***************************************************************************)
(* submit_proposal_onchain, then the tests of its result (lines 311-328).  *)
(***************************************************************************)
Submit(t, outs) ==
    /\ pc[t] = "submit"
    /\ \E out \in outs :
         LET made == out \in {"mined_late", "db_failed", "confirmed"}
             pid == IF out = "confirmed" THEN nextProposalId ELSE NoProposalId
         IN
         /\ submitted' = [submitted EXCEPT ![t] = out]
         /\ proposal_id' = [proposal_id EXCEPT ![t] = pid]
         /\ IF made
            THEN /\ ledgerProposals' = (nextProposalId :> NewProposal) @@ ledgerProposals
                 /\ nextProposalId' = nextProposalId + 1
            ELSE UNCHANGED <<ledgerProposals, nextProposalId>>
         /\ tag' = [tag EXCEPT ![t] =
                       IF SubmissionFailed(pid) THEN "proposal_failed"
                       ELSE IF AutoApprove(analysis[t]) THEN @
                       ELSE "pending_approval"]
         /\ LET next == AfterSubmit(SubmissionFailed(pid),
                                    AutoApprove(analysis[t]))
            IN  IF next = "done"
                THEN Finish(t)
                ELSE /\ pc' = [pc EXCEPT ![t] = next]
                     /\ UNCHANGED <<last_cycle_time, cycleStatus, timeFrom,
                                    CYCLE_COUNTER>>
    /\ UNCHANGED <<cycleNo, riskFrom, auditVars>>
    /\ UNCHANGED <<is_running, last_risk_analysis, calls, sleeps, analysis,
                   unwindRuns, published, gate, proposal, execSent,
                   cyclesStarted, ticks, clockVars, cd_result, unwindVars, calcVars>>

(***************************************************************************)
(* execute_approved_proposal, then the tag of its result (lines 319-325).  *)
(* It reads the proposal from the ledger and returns False when it is not  *)
(* approved, or already executed, or the idle buffer is low; otherwise it  *)
(* sends executeRebalance and returns True only for a receipt of status 1  *)
(* followed by a successful audit update.  Every exception gives False     *)
(* (reading a proposal the ledger does not hold is one).                   *)
(* A rebalance the ledger executes moves its lastRebalanceTime.            *)
(***************************************************************************)
Execute(t, outs) ==
    /\ pc[t] = "execute"
    /\ \E out \in outs :
         LET pid == proposal_id[t]
             known == pid \in DOMAIN ledgerProposals
             refused == out = "read_failed" \/ ~known
                          \/ ~ledgerProposals[pid].approved
                          \/ ledgerProposals[pid].executed
                          \/ out = "idle_low"
             sent == ~refused /\ out # "send_failed"
             done == sent /\ out \in {"db_failed", "ok"}
             success == sent /\ out = "ok"
         IN
         /\ execSent' = [execSent EXCEPT ![t] = IF sent THEN @ \cup {pid} ELSE @]
         /\ IF done
            THEN /\ ledgerProposals' = [ledgerProposals EXCEPT ![pid].executed = TRUE]
                 /\ lastRebalanceTime' = now
            ELSE UNCHANGED <<ledgerProposals, lastRebalanceTime>>
         /\ tag' = [tag EXCEPT ![t] = ExecutionTag(success)]
         /\ Finish(t)
    /\ UNCHANGED <<cycleNo, riskFrom, auditVars>>
    /\ UNCHANGED <<is_running, last_risk_analysis, calls, sleeps, analysis,
                   unwindRuns, published, gate, proposal, submitted,
                   proposal_id, nextProposalId, cyclesStarted, ticks, now,
                   tzOffset, cd_result, unwindVars, calcVars>>

(***************************************************************************)
(* The coroutine of a finished cycle returns to its caller: its locals are *)
(* gone, and so is what the model remembered of the cycle.                 *)
(***************************************************************************)
Return(t) ==
    /\ pc[t] = "done"
    /\ pc' = [pc EXCEPT ![t] = "idle"]
    /\ calls' = [calls EXCEPT ![t] = 0]
    /\ sleeps' = [sleeps EXCEPT ![t] = <<>>]
    /\ analysis' = [analysis EXCEPT ![t] = NoAnalysis]
    /\ unwindRuns' = [unwindRuns EXCEPT ![t] = 0]
    /\ published' = [published EXCEPT ![t] = "none"]
    /\ gate' = [gate EXCEPT ![t] = "none"]
    /\ proposal' = [proposal EXCEPT ![t] = "none"]
    /\ submitted' = [submitted EXCEPT ![t] = "none"]
    /\ proposal_id' = [proposal_id EXCEPT ![t] = NoProposalId]
    /\ execSent' = [execSent EXCEPT ![t] = {}]
    /\ tag' = [tag EXCEPT ![t] = "none"]
    /\ cycleStatus' = [cycleStatus EXCEPT ![t] = "none"]
    /\ cycleNo' = [cycleNo EXCEPT ![t] = 0]
    /\ audited' = [audited EXCEPT ![t] = FALSE]
    /\ failures' = [failures EXCEPT ![t] = {}]
    /\ UNCHANGED <<is_running, last_cycle_time, last_risk_analysis,
                   statusVars, ledgerProposals, nextProposalId, cyclesStarted, ticks,
                   clockVars, cd_result, unwindVars, calcVars>>

(***************************************************************************)
(* The environment: someone approves a submitted proposal on the ledger;   *)
(* an hour passes.                                                         *)
(***************************************************************************)
LedgerApprove ==
    /\ \E id \in DOMAIN ledgerProposals :
         /\ ~ledgerProposals[id].approved
         /\ ledgerProposals' = [ledgerProposals EXCEPT ![id].approved = TRUE]
    /\ UNCHANGED <<is_running, last_cycle_time, last_risk_analysis, cycleVars,
                   statusVars, nextProposalId, cyclesStarted, ticks,
                   clockVars, cd_result, unwindVars, calcVars>>

Tick ==
    /\ ticks < MaxTicks
    /\ ticks' = ticks + 1
    /\ now' = now + 1
    /\ UNCHANGED <<is_running, last_cycle_time, last_risk_analysis, cycleVars,
                   statusVars, ledgerProposals, nextProposalId, cyclesStarted,
                   tzOffset,
                   lastRebalanceTime, cd_result, unwindVars, calcVars>>

(***************************************************************************)
(* Spec: the control loop in an environment that may fail every call, the  *)
(* cycles one after the other.                                             *)
(***************************************************************************)
AttemptStep == \E t \in Starters : Attempt(t, AttemptResults)
PublishStep == \E t \in Starters : Publish(t, PublishOutcomes)
CheckCooldownStep == \E t \in Starters : CheckCooldown(t)
ProposeStep == \E t \in Starters : Propose(t, ProposeOutcomes)
SubmitStep == \E t \in Starters : Submit(t, SubmitOutcomes)
ExecuteStep == \E t \in Starters : Execute(t, ExecuteOutcomes)
ReturnStep == \E t \in Starters : Return(t)

Next ==
    \/ OrchestratorStart(MaxInFlight, BOOLEAN)
    \/ TimerJob(MaxInFlight, BOOLEAN)
    \/ ResearchJob(MaxInFlight, BOOLEAN)
    \/ TriggerEmergencyAnalysis(MaxInFlight, BOOLEAN)
    \/ AttemptStep
    \/ PublishStep
    \/ CheckCooldownStep
    \/ ProposeStep
    \/ SubmitStep
    \/ ExecuteStep
    \/ ReturnStep
    \/ LedgerApprove
    \/ Tick

Spec == Init /\ [][Next]_vars

(***************************************************************************)
(* SpecOverlap: the same control loop in the calm environment on a UTC     *)
(* host, with no limit on the cycles in flight: every starter may call     *)
(* _run_monitoring_cycle while another starter's cycle is suspended at an  *)
(* await.                                                                  *)
(***************************************************************************)
NoLimit == Cardinality(Starters) + 1

OverlapAttempt == \E t \in Starters : Attempt(t, CalmResults)
OverlapPublish == \E t \in Starters : Publish(t, {"sent"})
OverlapCheckCooldown == \E t \in Starters : CheckCooldown(t)
OverlapPropose == \E t \in Starters : Propose(t, {"some"})
OverlapSubmit == \E t \in Starters : Submit(t, {"confirmed"})
OverlapExecute == \E t \in Starters : Execute(t, {"ok"})
OverlapReturn == \E t \in Starters : Return(t)

NextOverlap ==
    \/ OrchestratorStart(NoLimit, {TRUE})
    \/ TimerJob(NoLimit, {TRUE})
    \/ ResearchJob(NoLimit, {TRUE})
    \/ TriggerEmergencyAnalysis(NoLimit, {TRUE})
    \/ OverlapAttempt
    \/ OverlapPublish
    \/ OverlapCheckCooldown
    \/ OverlapPropose
    \/ OverlapSubmit
    \/ OverlapExecute
    \/ OverlapReturn
    \/ LedgerApprove
    \/ Tick

SpecOverlap == InitUtc /\ [][NextOverlap]_vars

(***************************************************************************)
(* SpecCalm: the calm environment on a UTC host, the cycles one after the  *)
(* other.                                                                  *)
(***************************************************************************)
CalmAttempt == \E t \in Starters : Attempt(t, CalmResults)
CalmPublish == \E t \in Starters : Publish(t, {"sent"})
CalmCheckCooldown == \E t \in Starters : CheckCooldown(t)
CalmPropose == \E t \in Starters : Propose(t, {"some"})
CalmSubmit == \E t \in Starters : Submit(t, {"confirmed"})
CalmExecute == \E t \in Starters : Execute(t, {"ok"})
CalmReturn == \E t \in Starters : Return(t)

NextCalm ==
    \/ OrchestratorStart(MaxInFlight, {TRUE})
    \/ TimerJob(MaxInFlight, {TRUE})
    \/ ResearchJob(MaxInFlight, {TRUE})
    \/ TriggerEmergencyAnalysis(MaxInFlight, {TRUE})
    \/ CalmAttempt
    \/ CalmPublish
    \/ CalmCheckCooldown
    \/ CalmPropose
    \/ CalmSubmit
    \/ CalmExecute
    \/ CalmReturn
    \/ LedgerApprove
    \/ Tick

SpecCalm == InitUtc /\ [][NextCalm]_vars

(***************************************************************************)
(* SpecCooldown: one call of can_rebalance, for every clock, ledger        *)
(* timestamp and time zone within the bounds.                              *)
(***************************************************************************)
InitCooldown ==
    /\ LoopIdle
    /\ UnwindIdle
    /\ CalcIdle
    /\ cd_result = <<>>
    /\ tzOffset \in TzOffsets
    /\ lastRebalanceTime \in 0 .. MaxSlack
    /\ now \in (lastRebalanceTime + REBALANCE_COOLDOWN - MaxSlack) ..
               (lastRebalanceTime + REBALANCE_COOLDOWN + MaxSlack)

CallCanRebalance ==
    /\ cd_result = <<>>
    /\ cd_result' = CanRebalance(now, lastRebalanceTime, tzOffset)
    /\ UNCHANGED <<loopVars, clockVars, unwindVars, calcVars>>

NextCooldown == CallCanRebalance

SpecCooldown == InitCooldown /\ [][NextCooldown]_vars

(***************************************************************************)
(* SpecUnwind: one run of RiskAgent._execute_emergency_unwind over the     *)
(* strategies an analysis flags.  The ledger holds KnownStrategies; the    *)
(* analysis may name a strategy the ledger does not hold.  What may happen *)
(* to one strategy:                                                        *)
(*   lookup_failed  reading the ledger's strategies raised                 *)
(*   not_found      the ledger holds no strategy of that name (continue)   *)
(*   send_failed    building, signing or sending the tx raised             *)
(*   timeout        the tx was sent, the wait for its receipt raised       *)
(*   log_failed     the receipt came, the audit insert raised              *)
(*   reverted       the receipt came with status 0, the audit row written  *)
(*   ok             the receipt came with status 1, the audit row written  *)
(* The tx of the k-th strategy is named k.                                 *)
(***************************************************************************)
KnownStrategies == {"aave", "compound"}

StrategyNames == KnownStrategies \cup {"ghost"}

UnwindLists == UNION {[1 .. n -> StrategyNames] : n \in 0 .. MaxUnwind}

UnwindOutcomes ==
    {"lookup_failed", "send_failed", "timeout", "log_failed", "reverted", "ok"}

UnwindFailures ==
    {"lookup_failed", "not_found", "send_failed", "timeout", "log_failed"}

\* A batch that stops at the first strategy whose unwind fails.
NextStrategyAbort(i, n, outcome) ==
    IF outcome \in UnwindFailures THEN n ELSE i + 1

\* The for loop goes to the next strategy whatever happened to this one:
\* "continue" for a strategy not found, "except Exception" inside the loop.
NextStrategy(i, n, outcome) == i + 1

InitUnwind ==
    /\ LoopIdle
    /\ CalcIdle
    /\ cd_result = <<>>
    /\ now = REBALANCE_COOLDOWN - 1
    /\ tzOffset = 0
    /\ lastRebalanceTime = 0
    /\ uw_pc = "loop"
    /\ uw_strategies \in UnwindLists
    /\ uw_i = 0
    /\ uw_outcome = <<>>
    /\ uw_sent = {}
    /\ uw_log = <<>>

UnwindOne ==
    /\ uw_pc = "loop"
    /\ uw_i < Len(uw_strategies)
    /\ \E out \in UnwindOutcomes :
         LET k == uw_i + 1
             strategy_name == uw_strategies[k]
             outcome == IF out = "lookup_failed" THEN out
                        ELSE IF strategy_name \notin KnownStrategies
                        THEN "not_found" ELSE out
             sent == outcome \in {"timeout", "log_failed", "reverted", "ok"}
             logged == outcome \in {"reverted", "ok"}
         IN
         /\ uw_outcome' = Append(uw_outcome, outcome)
         /\ uw_sent' = IF sent THEN uw_sent \cup {k} ELSE uw_sent
         /\ uw_log' = IF logged
                      THEN Append(uw_log, [strategy |-> strategy_name, tx |-> k])
                      ELSE uw_log
         /\ uw_i' = NextStrategy(uw_i, Len(uw_strategies), outcome)
    /\ UNCHANGED <<uw_pc, uw_strategies, loopVars, clockVars, cd_result,
                   calcVars>>

UnwindEnd ==
    /\ uw_pc = "loop"
    /\ uw_i >= Len(uw_strategies)
    /\ uw_pc' = "done"
    /\ UNCHANGED <<uw_strategies, uw_i, uw_outcome, uw_sent, uw_log, loopVars,
                   clockVars, cd_result, calcVars>>

NextUnwind ==
    \/ UnwindOne
    \/ UnwindEnd

SpecUnwind == InitUnwind /\ [][NextUnwind]_vars

(***************************************************************************)
(* The Allocation Optimizer and the Rebalance Proposer of ExecutionAgent.  *)
(* Allocations are basis points (the code holds them as fractions of 1),   *)
(* APY and utilization are whole percents, so that apy x (1 - utilization) *)
(* is a number of basis points; amounts are numbers of 100,000 USD.  The   *)
(* code computes in Decimal; a quotient is kept exact here, as a numerator *)
(* over a denominator.                                                     *)
(***************************************************************************)
Min(a, b) == IF a <= b THEN a ELSE b

StrategyAllocation(name, current, max, deposited, apy, util) ==
    [name |-> name,
     current_allocation |-> current,
     max_allocation |-> max,
     total_deposited |-> deposited,
     current_apy |-> apy,
     utilization |-> util]

\* weight = apy_factor * util_factor, capped at max_allocation (lines 164-171).
Weight(alloc) ==
    Min(alloc.current_apy * (Percent - alloc.utilization), alloc.max_allocation)

Names(allocations) ==
    {allocations[i].name : i \in 1 .. Len(allocations)}

\* The dict weights: of two entries with one name the later one stays.
Weights(allocations) ==
    [n \in Names(allocations) |->
        LET last == CHOOSE i \in 1 .. Len(allocations) :
                        /\ allocations[i].name = n
                        /\ \A j \in (i + 1) .. Len(allocations) :
                              allocations[j].name # n
        IN  Weight(allocations[last])]

RECURSIVE TotalWeight(_)
TotalWeight(allocations) ==
    IF allocations = <<>>
    THEN 0
    ELSE Weight(Head(allocations)) + TotalWeight(Tail(allocations))

\* An optimizer that leaves no idle buffer.
AvailableNoBuffer == BASIS_POINTS

\* available = 1 - MIN_IDLE_BUFFER_BPS / BASIS_POINTS, in basis points.
Available == BASIS_POINTS - MIN_IDLE_BUFFER_BPS

\* An optimizer that gives nothing when no strategy has a weight.
EqualSplitNothing(weights) ==
    [den |-> 1, num |-> [n \in DOMAIN weights |-> 0]]

\* optimal[name] = available / len(weights) for every name (line 182); no
\* name, no division.
EqualSplit(weights) ==
    [den |-> Cardinality(DOMAIN weights),
     num |-> [n \in DOMAIN weights |-> Available]]

\* calculate_optimal_allocation: the target of name n is num[n] / den basis
\* points.
CalculateOptimalAllocation(allocations) ==
    LET weights == Weights(allocations)
        total_weight == TotalWeight(allocations)
    IN  IF total_weight > 0
        THEN [den |-> total_weight,
              num |-> [n \in DOMAIN weights |-> weights[n] * Available]]
        ELSE EqualSplit(weights)

RECURSIVE SumOf(_, _)
SumOf(f, S) ==
    IF S = {}
    THEN 0
    ELSE LET x == CHOOSE y \in S : TRUE IN f[x] + SumOf(f, S \ {x})

(***************************************************************************)
(* SpecOptimizer: calculate_optimal_allocation alone, called once with a   *)
(* list of up to MaxStrategies strategies of distinct names.               *)
(***************************************************************************)
OptimizerStrategies ==
    {StrategyAllocation(0, 0, max, 0, yield[1], yield[2]) :
        max \in {100, 2000, BASIS_POINTS},
        yield \in {<<HARD_CODED_APY, HARD_CODED_UTILIZATION>>,
                   <<8, HARD_CODED_UTILIZATION>>,
                   <<HARD_CODED_APY, Percent>>}}

\* The i-th strategy of a list is named i.
Named(list) == [i \in DOMAIN list |-> [list[i] EXCEPT !.name = i]]

\* The lists of up to max strategies, the empty list among them.
OptimizerLists(max) ==
    UNION {{Named(list) : list \in [1 .. n -> OptimizerStrategies]} :
              n \in 0 .. max}

InitOptimizer ==
    /\ LoopIdle
    /\ UnwindIdle
    /\ cd_result = <<>>
    /\ now = REBALANCE_COOLDOWN - 1
    /\ tzOffset = 0
    /\ lastRebalanceTime = 0
    /\ opt_allocations \in OptimizerLists(MaxStrategies)
    /\ opt_result = <<>>
    /\ pr_ledger = [strategies |-> <<>>, totalAssets |-> 0, can_rebal |-> FALSE]
    /\ pr_result = <<>>
    /\ ChannelIdle
    /\ SnapshotIdle
    /\ SoloIdle

CallCalculateOptimalAllocation ==
    /\ opt_result = <<>>
    /\ opt_result' = <<CalculateOptimalAllocation(opt_allocations)>>
    /\ UNCHANGED <<loopVars, clockVars, cd_result, unwindVars, opt_allocations,
                   pr_ledger, pr_result, channelVars, snapshotVars, soloVars>>

NextOptimizer == CallCalculateOptimalAllocation

SpecOptimizer == InitOptimizer /\ [][NextOptimizer]_vars

(***************************************************************************)
(* propose_rebalance.                                                      *)
(***************************************************************************)
\* get_current_allocations: APY and utilization are fixed in the code.
GetCurrentAllocations(strategies) ==
    [i \in DOMAIN strategies |->
        StrategyAllocation(strategies[i].name, strategies[i].allocation,
                           strategies[i].maxAllocation,
                           strategies[i].totalDeposited,
                           HARD_CODED_APY, HARD_CODED_UTILIZATION)]

\* deviation = current - target, times the targets' denominator.
Deviation(alloc, optimal) ==
    alloc.current_allocation * optimal.den - optimal.num[alloc.name]

\* A loop that keeps the first strategy above its target as the source.
IsNewSourceFirstAbove(deviation, max_deviation) ==
    deviation > 0 /\ max_deviation = 0

\* if deviation > max_deviation (line 212).
IsNewSource(deviation, max_deviation) == deviation > max_deviation

\* A loop that takes a strategy exactly on its target as a destination.
IsNewDestinationLoose(deviation, max_deviation) ==
    deviation <= 0 - max_deviation

\* elif deviation < -max_deviation (line 215).
IsNewDestination(deviation, max_deviation) == deviation < 0 - max_deviation

\* The loop of lines 207-216 from the i-th strategy on; from_strat and
\* to_strat are positions in the list, 0 for None.
RECURSIVE FindLargestDeviation(_, _, _, _)
FindLargestDeviation(allocations, optimal, i, acc) ==
    IF i > Len(allocations)
    THEN acc
    ELSE LET deviation == Deviation(allocations[i], optimal)
             after ==
                 IF IsNewSource(deviation, acc.max_deviation)
                 THEN [acc EXCEPT !.max_deviation = deviation, !.from_strat = i]
                 ELSE IF IsNewDestination(deviation, acc.max_deviation)
                 THEN [acc EXCEPT !.to_strat = i]
                 ELSE acc
         IN  FindLargestDeviation(allocations, optimal, i + 1, after)

\* A threshold that turns away a deviation of exactly 2% as well.
DeviationTooSmallInclusive(max_deviation, den) ==
    max_deviation <= MIN_DEVIATION_BPS * den

\* max_deviation < Decimal("0.02") (line 223).
DeviationTooSmall(max_deviation, den) ==
    max_deviation < MIN_DEVIATION_BPS * den

\* From here on an amount a is held as a * den * BASIS_POINTS.
\* A limit of 20% of TVL.
MaxAmountWide(tvl, den) == tvl * (MAX_SINGLE_REBALANCE_BPS + MIN_IDLE_BUFFER_BPS) * den

\* max_amount = tvl * MAX_SINGLE_REBALANCE_BPS / BASIS_POINTS (line 230).
MaxAmount(tvl, den) == tvl * MAX_SINGLE_REBALANCE_BPS * den

\* An amount that is not limited by max_amount.
UnclampedAmountNoLimit(from_deposited, max_deviation, tvl, den) ==
    from_deposited * max_deviation

\* amount = min(from_strat.total_deposited * max_deviation, max_amount).
UnclampedAmount(from_deposited, max_deviation, tvl, den) ==
    Min(from_deposited * max_deviation, MaxAmount(tvl, den))

\* target_new_alloc > to_strat.max_allocation (lines 234-235), tvl > 0.
CapBinds(to_deposited, to_max, amount, tvl, den) ==
    to_deposited * den * BASIS_POINTS + amount > to_max * tvl * den

\* A proposer that leaves the amount as it is.
ClampedAmountNoClamp(to_deposited, to_max, amount, tvl, den) == amount

\* A proposer that always moves the amount to the destination's room.
ClampedAmountToCap(to_deposited, to_max, amount, tvl, den) ==
    to_max * tvl * den - to_deposited * den * BASIS_POINTS

\* Lines 234-236.
ClampedAmount(to_deposited, to_max, amount, tvl, den) ==
    IF CapBinds(to_deposited, to_max, amount, tvl, den)
    THEN to_max * tvl * den - to_deposited * den * BASIS_POINTS
    ELSE amount

\* What a call ends with: kind is "none" (None), "raised" or "proposal"; for a
\* proposal the pair, the amount and the locals it was computed from
\* (max_deviation and the amount before the clamp), all over den.
NoProposal ==
    [kind |-> "none", from_strategy |-> 0, to_strategy |-> 0, amount |-> 0,
     den |-> 1, max_deviation |-> 0, unclamped |-> 0]

\* Decimal raises on a division by zero.
ProposalRaised == [NoProposal EXCEPT !.kind = "raised"]

\* propose_rebalance up to the amount test of line 239: what the vault
\* answers in, None, a raise or the proposal's pair and amount out.
ProposeRebalance(ledger) ==
    IF ~ledger.can_rebal
    THEN NoProposal
    ELSE
    LET allocations == GetCurrentAllocations(ledger.strategies)
        optimal == CalculateOptimalAllocation(allocations)
        found == FindLargestDeviation(allocations, optimal, 1,
                     [max_deviation |-> 0, from_strat |-> 0, to_strat |-> 0])
        tvl == ledger.totalAssets
    IN  IF found.from_strat = 0 \/ found.to_strat = 0
        THEN NoProposal
        ELSE IF DeviationTooSmall(found.max_deviation, optimal.den)
        THEN NoProposal
        ELSE IF tvl = 0
        THEN ProposalRaised
        ELSE
        LET from_strat == allocations[found.from_strat]
            to_strat == allocations[found.to_strat]
            amount == UnclampedAmount(from_strat.total_deposited,
                                      found.max_deviation, tvl, optimal.den)
            clamped == ClampedAmount(to_strat.total_deposited,
                                     to_strat.max_allocation, amount, tvl,
                                     optimal.den)
        IN  IF clamped <= 0
            THEN NoProposal
            ELSE [kind |-> "proposal",
                  from_strategy |-> from_strat.name,
                  to_strategy |-> to_strat.name,
                  amount |-> clamped,
                  den |-> optimal.den,
                  max_deviation |-> found.max_deviation,
                  unclamped |-> amount]

(***************************************************************************)
(* SpecProposer: propose_rebalance alone, called once.  The vault holds up *)
(* to MaxStrategies strategies of distinct names, allocation <=            *)
(* maxAllocation, the allocations within 100%; a strategy's totalDeposited *)
(* is its share of 100 units, in whole units; totalAssets is read later    *)
(* and may have moved.                                                     *)
(***************************************************************************)
LedgerStrategy(allocation, maxAllocation) ==
    [name |-> 0, allocation |-> allocation, maxAllocation |-> maxAllocation,
     totalDeposited |-> allocation \div Percent]

LedgerStrategies ==
    {LedgerStrategy(p[1], p[2]) :
        p \in {<<0, 100>>, <<0, 5000>>,
               <<1000, 1500>>, <<1000, 2000>>, <<1000, 5000>>,
               <<2500, 5000>>, <<4000, 5000>>,
               <<4900, 5000>>, <<4950, 5000>>}}

RECURSIVE TotalAllocation(_)
TotalAllocation(strategies) ==
    IF strategies = <<>>
    THEN 0
    ELSE Head(strategies).allocation + TotalAllocation(Tail(strategies))

\* The lists of up to max strategies.
LedgerLists(max) ==
    {list \in UNION {{Named(l) : l \in [1 .. n -> LedgerStrategies]} :
                        n \in 0 .. max} :
        TotalAllocation(list) <= BASIS_POINTS}

TotalAssetsValues == {0, 30, 100}

InitProposer ==
    /\ LoopIdle
    /\ UnwindIdle
    /\ cd_result = <<>>
    /\ now = REBALANCE_COOLDOWN - 1
    /\ tzOffset = 0
    /\ lastRebalanceTime = 0
    /\ opt_allocations = <<>>
    /\ opt_result = <<>>
    /\ pr_ledger \in [strategies : LedgerLists(MaxStrategies),
                      totalAssets : TotalAssetsValues,
                      can_rebal : BOOLEAN]
    /\ pr_result = <<>>
    /\ ChannelIdle
    /\ SnapshotIdle
    /\ SoloIdle

CallProposeRebalance ==
    /\ pr_result = <<>>
    /\ pr_result' = <<ProposeRebalance(pr_ledger)>>
    /\ UNCHANGED <<loopVars, clockVars, cd_result, unwindVars, opt_allocations,
                   opt_result, pr_ledger, channelVars, snapshotVars, soloVars>>

NextProposer == CallProposeRebalance

SpecProposer == InitProposer /\ [][NextProposer]_vars

(***************************************************************************)
(* The Submission Channel: ExecutionAgent._submit_via_flashbots.  The      *)
(* environment of one call is what the relay does to the private           *)
(* submission and what the node does to each public send:                  *)
(*   prepare_raised  the session, the bundle signature or block_number     *)
(*                   raised before the post (lines 356-373)                *)
(*   post_raised     session.post raised (line 375)                        *)
(*   non_200         the relay answered with a status other than 200       *)
(*   no_result       status 200, the body has no "result"                  *)
(*   json_raised     status 200, resp.json() raised (line 381)             *)
(*   decode_raised   status 200 with a result that is not a hex hash       *)
(*   accepted        status 200 with the tx hash as result                 *)
(* A signed transaction is a number, its own hash the same number; the     *)
(* relay answers with the hash it pleases.                                 *)
(***************************************************************************)
RelayOutcomes ==
    {"prepare_raised", "post_raised", "non_200", "no_result", "json_raised",
     "decode_raised", "accepted"}

FlashbotsEnvs ==
    [raw_tx : 1 .. MaxTx,
     relay : RelayOutcomes,
     relay_hash : 1 .. MaxTx,
     public : [1 .. 2 -> {"ok", "raise"}]]

\* A channel that sends on the public path whatever the relay answered.
ConfidentialFailedAlways(relay) == TRUE

\* The private submission did not return the relay's hash (line 383).
ConfidentialFailed(relay) == relay # "accepted"

\* The failures seen inside the try block after the response came: the
\* fallback of line 387 runs inside the try block.
FallbackInsideTry(relay) == relay \in {"non_200", "no_result"}

\* w3.eth.send_raw_transaction(raw_tx) returns the hash of the tx.
SendRawTransaction(raw_tx) == raw_tx

\* _submit_via_flashbots: the paths the tx was sent on, in order (a send that
\* raised is listed: the node may have taken the tx), and how the call ended.
SubmitViaFlashbots(env) ==
    LET private == IF env.relay = "prepare_raised"
                   THEN <<>> ELSE <<"confidential">>
        returned(sends, hash) ==
            [kind |-> "returned", sends |-> sends, tx_hash |-> hash]
        raised(sends) ==
            [kind |-> "raised", sends |-> sends, tx_hash |-> 0]
    IN  IF ~ConfidentialFailed(env.relay)
        THEN returned(private, env.relay_hash)
        ELSE IF FallbackInsideTry(env.relay)
        THEN IF env.public[1] = "ok"
             THEN returned(private \o <<"public">>,
                           SendRawTransaction(env.raw_tx))
             ELSE IF env.public[2] = "ok"
             THEN returned(private \o <<"public", "public">>,
                           SendRawTransaction(env.raw_tx))
             ELSE raised(private \o <<"public", "public">>)
        ELSE IF env.public[1] = "ok"
             THEN returned(private \o <<"public">>,
                           SendRawTransaction(env.raw_tx))
             ELSE raised(private \o <<"public">>)

(***************************************************************************)
(* SpecChannel: _submit_via_flashbots alone, called once.                  *)
(***************************************************************************)
InitChannel ==
    /\ LoopIdle
    /\ UnwindIdle
    /\ cd_result = <<>>
    /\ now = REBALANCE_COOLDOWN - 1
    /\ tzOffset = 0
    /\ lastRebalanceTime = 0
    /\ opt_allocations = <<>>
    /\ opt_result = <<>>
    /\ pr_ledger = [strategies |-> <<>>, totalAssets |-> 0, can_rebal |-> FALSE]
    /\ pr_result = <<>>
    /\ fb_env \in FlashbotsEnvs
    /\ fb_result = <<>>
    /\ SnapshotIdle
    /\ SoloIdle

CallSubmitViaFlashbots ==
    /\ fb_result = <<>>
    /\ fb_result' = <<SubmitViaFlashbots(fb_env)>>
    /\ UNCHANGED <<loopVars, clockVars, cd_result, unwindVars, opt_allocations,
                   opt_result, pr_ledger, pr_result, fb_env, snapshotVars,
                   soloVars>>

NextChannel == CallSubmitViaFlashbots

SpecChannel == InitChannel /\ [][NextChannel]_vars

(***************************************************************************)
(* SpecSnapshot: the ledger reads of one monitoring cycle that goes as far *)
(* as the submission, against a vault whose state other parties change     *)
(* (deposits, withdrawals, rebalances: a new block).  Every stage reads    *)
(* the vault with calls of its own; nothing of fetch_vault_data's result   *)
(* is handed to the cooldown check, the proposer or the submission.        *)
(***************************************************************************)
LedgerReadStages ==
    <<[stage |-> "fetch",   reads |-> "fetch_vault_data"],
      [stage |-> "gate",    reads |-> "lastRebalanceTime"],
      [stage |-> "propose", reads |-> "lastRebalanceTime"],
      [stage |-> "propose", reads |-> "strategies"],
      [stage |-> "propose", reads |-> "totalAssets"],
      [stage |-> "submit",  reads |-> "strategies"]>>

InitSnapshot ==
    /\ LoopIdle
    /\ UnwindIdle
    /\ cd_result = <<>>
    /\ now = REBALANCE_COOLDOWN - 1
    /\ tzOffset = 0
    /\ lastRebalanceTime = 0
    /\ opt_allocations = <<>>
    /\ opt_result = <<>>
    /\ pr_ledger = [strategies |-> <<>>, totalAssets |-> 0, can_rebal |-> FALSE]
    /\ pr_result = <<>>
    /\ ChannelIdle
    /\ SnapshotIdle
    /\ SoloIdle

\* The next read of the cycle: an eth_call answered from the vault's state as
\* it is now.
LedgerRead ==
    /\ Len(ledgerReads) < Len(LedgerReadStages)
    /\ ledgerReads' = Append(ledgerReads, ledgerVersion)
    /\ UNCHANGED <<loopVars, clockVars, cd_result, unwindVars, opt_allocations,
                   opt_result, pr_ledger, pr_result, channelVars, ledgerVersion,
                   soloVars>>

\* Someone else's transaction changes the vault.
LedgerChange ==
    /\ ledgerVersion < MaxLedgerChanges
    /\ ledgerVersion' = ledgerVersion + 1
    /\ UNCHANGED <<loopVars, clockVars, cd_result, unwindVars, opt_allocations,
                   opt_result, pr_ledger, pr_result, channelVars, ledgerReads,
                   soloVars>>

NextSnapshot ==
    \/ LedgerRead
    \/ LedgerChange

SpecSnapshot == InitSnapshot /\ [][NextSnapshot]_vars

\* What every single-call specification below starts from, its own
\* variables apart.
OthersIdle ==
    /\ LoopIdle
    /\ UnwindIdle
    /\ cd_result = <<>>
    /\ now = REBALANCE_COOLDOWN - 1
    /\ tzOffset = 0
    /\ lastRebalanceTime = 0
    /\ opt_allocations = <<>>
    /\ opt_result = <<>>
    /\ pr_ledger = [strategies |-> <<>>, totalAssets |-> 0, can_rebal |-> FALSE]
    /\ pr_result = <<>>
    /\ ChannelIdle
    /\ SnapshotIdle

othersVars == <<loopVars, clockVars, cd_result, unwindVars, opt_allocations,
                opt_result, pr_ledger, pr_result, channelVars, snapshotVars>>

(***************************************************************************)
(* SpecExecute: one call of execute_approved_proposal (lines 424-484),     *)
(* against every answer of the vault (the proposal's flags, totalAssets,   *)
(* the balance) and every way the rest of the call can go.                 *)
(***************************************************************************)
\* How the call goes apart from the buffer check, which is computed here
\* from the balance and totalAssets the vault answers.
ExecuteCallOutcomes == ExecuteOutcomes \ {"idle_low"}

ExecuteEnvs ==
    [approved : BOOLEAN, executed : BOOLEAN, idle : 0 .. MaxIdle,
     tvl : {20 * k : k \in 0 .. MaxTvlSteps}, out : ExecuteCallOutcomes]

\* A buffer check that lets every balance through.
IdleBufferLowNever(idle, tvl) == FALSE

\* idle_ratio * BASIS_POINTS < MIN_IDLE_BUFFER_BPS (lines 439-443), the
\* ratio being idle / tvl, or 0 when tvl is 0.
IdleBufferLow(idle, tvl) ==
    IF tvl > 0
    THEN idle * BASIS_POINTS < MIN_IDLE_BUFFER_BPS * tvl
    ELSE 0 < MIN_IDLE_BUFFER_BPS

\* execute_approved_proposal: what it returns, whether it sent the
\* executeRebalance transaction, whether the ledger executed it, and
\* whether the audit row was updated.
ExecuteApprovedProposal(env) ==
    LET refused == \/ env.out = "read_failed"
                   \/ ~env.approved
                   \/ env.executed
                   \/ IdleBufferLow(env.idle, env.tvl)
        sent == ~refused /\ env.out # "send_failed"
        mined == sent /\ env.out \in {"db_failed", "ok"}
    IN  [sent |-> sent,
         executed |-> mined,
         audit_updated |-> mined /\ env.out = "ok",
         returns |-> mined /\ env.out = "ok"]

InitExecute ==
    /\ OthersIdle
    /\ SideIdle
    /\ db_rows = <<>>
    /\ ResearchIdle
    /\ ex_env \in ExecuteEnvs
    /\ ex_result = <<>>

CallExecuteApprovedProposal ==
    /\ ex_result = <<>>
    /\ ex_result' = <<ExecuteApprovedProposal(ex_env)>>
    /\ UNCHANGED <<othersVars, ex_env, sideVars, db_rows, researchVars>>

NextExecute == CallExecuteApprovedProposal

SpecExecute == InitExecute /\ [][NextExecute]_vars

(***************************************************************************)
(* SpecSide: the steps of one _run_monitoring_cycle (lines 158-194) in     *)
(* their order, each of the calls that reach outside failing or not.  The  *)
(* retry loop always gives an analysis; env.level is its risk level.       *)
(***************************************************************************)
\* The statements of the try block, in order: fetch_vault_data (162),
\* _get_pending_research_signals (166), _run_risk_analysis_with_retry (169),
\* update_risk_oracle (175), _publish_risk_update (178),
\* _check_and_execute_rebalance (182), the success counter (188).
CycleSteps ==
    <<"fetch", "signals", "assess", "oracle", "publish", "rebalance", "count">>

\* The steps whose outside call may raise.
FailingSteps == {"fetch", "signals", "oracle", "publish", "rebalance"}

SideEnvs == [fails : [FailingSteps -> BOOLEAN], level : RiskLevels]

\* A cycle in which only the publication catches its own errors.
SwallowsOnlyPublish(step) == step = "publish"

\* The steps whose body is a try / except Exception that logs and returns:
\* _get_pending_research_signals (orchestrator 257-261), update_risk_oracle
\* (risk_agent 388-414), _publish_risk_update (orchestrator 265-292) and
\* _check_and_execute_rebalance (orchestrator 296-332).
SwallowsErrors(step) == step \in {"signals", "oracle", "publish", "rebalance"}

\* The cycle from step i on, ran being the steps entered so far.
RECURSIVE RunSteps(_, _, _)
RunSteps(env, i, ran) ==
    IF i > Len(CycleSteps)
    THEN [ran |-> ran, status |-> "success"]
    ELSE LET step == CycleSteps[i] IN
         IF step = "rebalance" /\ ~RebalanceAllowed([risk_level |-> env.level])
         THEN RunSteps(env, i + 1, ran)
         ELSE IF /\ step \in FailingSteps
                 /\ env.fails[step]
                 /\ ~SwallowsErrors(step)
         THEN [ran |-> Append(ran, step), status |-> "error"]
         ELSE RunSteps(env, i + 1, Append(ran, step))

\* _run_monitoring_cycle: the steps it entered and the label it counted.
RunMonitoringCycle(env) == RunSteps(env, 1, <<>>)

InitSide ==
    /\ OthersIdle
    /\ ExecuteIdle
    /\ db_rows = <<>>
    /\ ResearchIdle
    /\ sd_env \in SideEnvs
    /\ sd_result = <<>>

CallRunMonitoringCycle ==
    /\ sd_result = <<>>
    /\ sd_result' = <<RunMonitoringCycle(sd_env)>>
    /\ UNCHANGED <<othersVars, executeVars, sd_env, db_rows, researchVars>>

NextSide == CallRunMonitoringCycle

SpecSide == InitSide /\ [][NextSide]_vars

(***************************************************************************)
(* SpecAudit: the table rebalance_proposals under its three statements:    *)
(* the INSERT of _log_proposal (lines 266-286), the UPDATE of              *)
(* _update_proposal_status (404-422) and the UPDATE of                     *)
(* execute_approved_proposal (470-475).  A row keeps, besides its columns, *)
(* the statuses it has had.                                                *)
(***************************************************************************)
\* The column proposal_id: {} for NULL, {id} otherwise.
NullId == {}

\* The ids the ledger has given; _extract_proposal_id may also find none.
LedgerIds == 0 .. MaxRows - 1

\* The row the INSERT makes: status has its default, proposal_id is NULL.
NewRow(pair) ==
    [pair |-> pair, status |-> "proposed", proposal_id |-> NullId,
     history |-> <<"proposed">>]

\* A row after SET status = ..., the status kept in its history when it
\* changes.
SetStatus(row, status) ==
    [row EXCEPT !.status = status,
                !.history = IF row.status = status THEN @ ELSE Append(@, status)]

\* WHERE from_strategy = $4 AND to_strategy = $5 AND status = 'proposed'
\* ORDER BY timestamp DESC LIMIT 1: the newest such row, if any.
LatestProposed(rows, pair) ==
    LET matching == {i \in DOMAIN rows :
                        rows[i].pair = pair /\ rows[i].status = "proposed"}
    IN  {i \in matching : \A j \in matching : j <= i}

\* Some row holds the ledger id: the ledger gives an id once.
IdRecorded(rows, id) == \E i \in DOMAIN rows : rows[i].proposal_id = {id}

\* An UPDATE ... SET status = 'executed' with no WHERE clause.
ExecutedRowsAll(rows, id) == DOMAIN rows

\* WHERE proposal_id = $1 (line 474); NULL equals nothing.
ExecutedRows(rows, id) == {i \in DOMAIN rows : rows[i].proposal_id = {id}}

InitAudit ==
    /\ OthersIdle
    /\ ExecuteIdle
    /\ SideIdle
    /\ ResearchIdle
    /\ db_rows = <<>>

\* _log_proposal, called by propose_rebalance for the proposal it returns.
LogProposal ==
    /\ Len(db_rows) < MaxRows
    /\ \E pair \in 1 .. MaxPairs : db_rows' = Append(db_rows, NewRow(pair))
    /\ UNCHANGED <<othersVars, executeVars, sideVars, researchVars>>

\* _update_proposal_status(proposal, "submitted", tx_hash, proposal_id), for
\* a proposal that was logged: proposal_id is what _extract_proposal_id found
\* in the receipt, an id the ledger has not given before or None.  (Where the
\* database rejects ORDER BY and LIMIT in an UPDATE the statement raises and
\* no row changes: a step that leaves the table as it is.)
UpdateProposalStatus ==
    /\ \E pair \in 1 .. MaxPairs :
         /\ LatestProposed(db_rows, pair) # {}
         /\ \E pid \in {NullId} \cup
                        {{id} : id \in {x \in LedgerIds :
                                          ~IdRecorded(db_rows, x)}} :
              db_rows' = [i \in DOMAIN db_rows |->
                             IF i \in LatestProposed(db_rows, pair)
                             THEN [SetStatus(db_rows[i], "submitted")
                                       EXCEPT !.proposal_id = pid]
                             ELSE db_rows[i]]
    /\ UNCHANGED <<othersVars, executeVars, sideVars, researchVars>>

\* The UPDATE of execute_approved_proposal after a receipt of status 1,
\* for whatever id the function was called with.
MarkExecuted ==
    /\ \E id \in LedgerIds :
         /\ ExecutedRows(db_rows, id) # {}
         /\ db_rows' = [i \in DOMAIN db_rows |->
                           IF i \in ExecutedRows(db_rows, id)
                           THEN SetStatus(db_rows[i], "executed")
                           ELSE db_rows[i]]
    /\ UNCHANGED <<othersVars, executeVars, sideVars, researchVars>>

NextAudit ==
    \/ LogProposal
    \/ UpdateProposalStatus
    \/ MarkExecuted

SpecAudit == InitAudit /\ [][NextAudit]_vars

(***************************************************************************)
(* SpecResearch: one call of _run_research_cycle (orchestrator 196-215)    *)
(* with the run of the research agent it awaits (research_agent 88-116):   *)
(* the monitors build the signals, catching their own errors, then each    *)
(* signal is stored in Redis by _store_signal, which catches nothing.      *)
(***************************************************************************)
\* SignalSeverity (research_agent lines 22-27).
SignalSeverities == {"INFO", "LOW", "MEDIUM", "HIGH", "CRITICAL"}

\* The severities of the signals the monitors built, in order, and the
\* signal at whose storing Redis raises (0: none does).
ResearchEnvs ==
    [signals : UNION {[1 .. n -> SignalSeverities] : n \in 0 .. MaxSignals},
     store_raises_at : 0 .. MaxSignals]

\* ResearchAgent.run_monitoring_cycle: it returns the signals it built, or
\* the store loop of lines 109-114 raises at one of them, the signals before
\* that one being stored and published already.
ResearchAgentRun(env) ==
    LET k == env.store_raises_at
        raised == k \in 1 .. Len(env.signals)
    IN  [raised |-> raised,
         built |-> env.signals,
         stored |-> IF raised THEN SubSeq(env.signals, 1, k - 1)
                    ELSE env.signals,
         returned |-> IF raised THEN <<>> ELSE env.signals]

\* A filter that lets HIGH signals through as well.
HasCriticalOrHigh(signals) ==
    \E i \in 1 .. Len(signals) : signals[i] \in {"HIGH", "CRITICAL"}

\* critical_signals = [s for s in signals if s.severity ==
\* SignalSeverity.CRITICAL] is not empty (lines 207-208).
HasCritical(signals) ==
    \E i \in 1 .. Len(signals) : signals[i] = "CRITICAL"

\* The try of line 198 has an except Exception (lines 214-215) that logs.
ResearchCycleCatches == TRUE

\* _run_research_cycle: whether it awaited _run_monitoring_cycle, the
\* severities it counted, and whether an error left it.
RunResearchCycle(env) ==
    LET run == ResearchAgentRun(env) IN
    [run |-> run,
     counted |-> run.returned,
     started |-> ~run.raised /\ HasCritical(run.returned),
     raised |-> run.raised /\ ~ResearchCycleCatches]

InitResearch ==
    /\ OthersIdle
    /\ ExecuteIdle
    /\ SideIdle
    /\ db_rows = <<>>
    /\ rs_env \in ResearchEnvs
    /\ rs_result = <<>>

CallRunResearchCycle ==
    /\ rs_result = <<>>
    /\ rs_result' = <<RunResearchCycle(rs_env)>>
    /\ UNCHANGED <<othersVars, executeVars, sideVars, db_rows, rs_env>>

NextResearch == CallRunResearchCycle

SpecResearch == InitResearch /\ [][NextResearch]_vars

(***************************************************************************)
(* get_status (lines 334-342): the three status fields it reads, None      *)
(* written {} and a value v written {v}, and the cycle each of them was    *)
(* written by.                                                             *)
(***************************************************************************)
GetStatus ==
    [is_running |-> is_running,
     last_cycle_time |->
         IF last_cycle_time # -1 THEN {last_cycle_time} ELSE {},
     last_risk_score |->
         IF last_risk_analysis # NoAnalysis
         THEN {last_risk_analysis.composite_score} ELSE {},
     last_risk_level |->
         IF last_risk_analysis # NoAnalysis
         THEN {last_risk_analysis.risk_level} ELSE {}]

StatusSources ==
    [last_cycle_time |-> timeFrom,
     last_risk_score |-> riskFrom,
     last_risk_level |-> riskFrom]

(***************************************************************************)
(*                              The claims                                 *)
(***************************************************************************)

\* C1: at most one monitoring cycle is in flight at any time, whoever started
\* it (start(), the interval job, the research job, the manual trigger).
C1_NoOverlap == Cardinality({t \in Starters : InFlight(t)}) <= 1

\* C2: two cycles are never both past the Cooldown Gate (can_rebalance
\* answered True to both) before either has sent its executeRebalance.
C2_GatePassedByOneCycle ==
    \A t1, t2 \in Starters :
        t1 # t2 =>
            ~ /\ InFlight(t1) /\ gate[t1] = "open" /\ execSent[t1] = {}
              /\ InFlight(t2) /\ gate[t2] = "open" /\ execSent[t2] = {}

\* C3: when every analyze_risk call of a cycle raised, the retry loop made
\* exactly 3 calls, slept 1, 2 and 4 seconds after them, raised nothing (the
\* cycle goes on) and returned the analysis with composite score and all five
\* component scores 7500, HIGH_RISK, no emergency unwind; while it retries it
\* has made fewer than 3 calls and slept 1, then 2.
C3_RetryDegrade ==
    \A t \in Starters :
        /\ pc[t] = "assess" =>
              /\ calls[t] < 3
              /\ sleeps[t] = SubSeq(<<1, 2, 4>>, 1, calls[t])
        /\ (pc[t] = "publish" /\ Len(sleeps[t]) = calls[t]) =>
              /\ calls[t] = 3
              /\ sleeps[t] = <<1, 2, 4>>
              /\ cycleStatus[t] = "running"
              /\ unwindRuns[t] = 0
              /\ analysis[t].composite_score = 7500
              /\ analysis[t].protocol_risk = 7500
              /\ analysis[t].liquidity_risk = 7500
              /\ analysis[t].utilization_risk = 7500
              /\ analysis[t].governance_risk = 7500
              /\ analysis[t].oracle_risk = 7500
              /\ analysis[t].risk_level = "HIGH_RISK"
              /\ analysis[t].should_emergency_unwind = FALSE

\* C3 witness: a cycle whose three calls all raised holds the fallback.
C3_Witness ==
    \E t \in Starters :
        /\ pc[t] = "publish"
        /\ calls[t] = 3
        /\ Len(sleeps[t]) = 3
        /\ analysis[t].kind = "degraded"

\* C4: for an analysis that analyze_risk produced, the emergency unwind ran
\* if and only if composite_score >= 8000 or should_emergency_unwind.
C4_EmergencyTrigger ==
    \A t \in Starters :
        analysis[t].kind \in {"assessor", "parse_failure"} =>
            (unwindRuns[t] >= 1 <=>
                (analysis[t].composite_score >= 8000
                    \/ analysis[t].should_emergency_unwind))

\* C4 witness: score 7999 with the flag set started the unwind.
C4_Witness ==
    \E t \in Starters :
        /\ analysis[t].kind = "assessor"
        /\ analysis[t].composite_score = 7999
        /\ analysis[t].should_emergency_unwind
        /\ unwindRuns[t] = 1

\* C5: in a cycle whose analysis has composite_score >= 8000 or
\* should_emergency_unwind, nothing of the rebalance consideration runs: no
\* cooldown check, no proposal, no submission, no execution.
C5_EmergencySkipsRebalance ==
    \A t \in Starters :
        (analysis[t].kind # "none"
            /\ (analysis[t].composite_score >= 8000
                    \/ analysis[t].should_emergency_unwind)) =>
            /\ gate[t] = "none"
            /\ proposal[t] = "none"
            /\ submitted[t] = "none"
            /\ execSent[t] = {}

\* C6: when the unwind batch ends, every flagged strategy was attempted, and
\* every strategy whose own unwind went through had its tx sent and its audit
\* row written, whatever happened to the strategies before it.
C6_UnwindIsolation ==
    uw_pc = "done" =>
        /\ Len(uw_outcome) = Len(uw_strategies)
        /\ \A k \in 1 .. Len(uw_strategies) :
              (uw_strategies[k] \in KnownStrategies
                  /\ uw_outcome[k] \notin UnwindFailures) =>
                  /\ k \in uw_sent
                  /\ \E r \in 1 .. Len(uw_log) :
                        uw_log[r] = [strategy |-> uw_strategies[k], tx |-> k]

\* C6 witness: three flagged strategies, the 2nd failed, the 1st and the 3rd
\* completed and are in the audit log.
C6_Witness ==
    /\ uw_pc = "done"
    /\ Len(uw_strategies) = 3
    /\ uw_outcome[1] = "ok"
    /\ uw_outcome[2] \in UnwindFailures
    /\ uw_outcome[3] = "ok"
    /\ uw_log = <<[strategy |-> uw_strategies[1], tx |-> 1],
                  [strategy |-> uw_strategies[3], tx |-> 3]>>

\* C7: can_rebalance answers (False, a remaining-time text) whenever
\* now < lastRebalanceTime + 7 days, and (True, None) otherwise.
C7_CooldownInvariant ==
    cd_result # <<>> =>
        IF now < lastRebalanceTime + 7 * 24
        THEN cd_result[1] = FALSE /\ cd_result[2] # {}
        ELSE cd_result[1] = TRUE /\ cd_result[2] = {}

C9_AutoApproveExecutes ==
    \A t \in Starters :
        (pc[t] = "done" /\ submitted[t] = "confirmed" /\ proposal_id[t] > 0) =>
            IF analysis[t].composite_score < 5000
            THEN proposal_id[t] \in execSent[t]
            ELSE tag[t] = "pending_approval" /\ execSent[t] = {}

\* C10: executeRebalance is sent only for the proposal id that a confirmed
\* submission of the same cycle returned (a proposal the ledger holds); a
\* cycle whose submission did not end confirmed is tagged proposal_failed and
\* sends no executeRebalance.
C10_ExecuteOnlyConfirmed ==
    \A t \in Starters :
        /\ \A id \in execSent[t] :
              /\ submitted[t] = "confirmed"
              /\ id = proposal_id[t]
              /\ id \in DOMAIN ledgerProposals
        /\ submitted[t] \in {"no_address", "send_failed", "timeout",
                             "mined_late", "no_event", "db_failed"} =>
              /\ pc[t] = "done"
              /\ tag[t] = "proposal_failed"
              /\ execSent[t] = {}

\* C10 witness: a cycle that sent executeRebalance for its confirmed proposal.
C10_Witness ==
    \E t \in Starters :
        /\ submitted[t] = "confirmed"
        /\ proposal_id[t] \in execSent[t]
        /\ tag[t] = "executed"

\* C11: a cycle whose fetch failed is counted as an error cycle and has done
\* nothing else: no assessment, no unwind, no publish, no cooldown check,
\* proposal, submission or execution, and neither last_risk_analysis nor
\* last_cycle_time was written by it.
C11_FetchFailureNoSideEffects ==
    \A t \in Starters :
        cycleStatus[t] = "error" =>
            /\ pc[t] = "done"
            /\ CYCLE_COUNTER.error >= 1
            /\ calls[t] = 0
            /\ sleeps[t] = <<>>
            /\ analysis[t] = NoAnalysis
            /\ unwindRuns[t] = 0
            /\ published[t] = "none"
            /\ gate[t] = "none"
            /\ proposal[t] = "none"
            /\ submitted[t] = "none"
            /\ execSent[t] = {}
            /\ tag[t] = "none"
            /\ riskFrom # cycleNo[t]
            /\ timeFrom # cycleNo[t]

\* C11 witness: the second cycle's fetch failed; the status fields are still
\* those the first cycle wrote.
C11_Witness ==
    \E t \in Starters :
        /\ cycleStatus[t] = "error"
        /\ cycleNo[t] = 2
        /\ riskFrom = 1
        /\ timeFrom = 1
        /\ last_risk_analysis # NoAnalysis

\* C12: no cycle ends by raising: every cycle started is either running or was
\* counted as a success or an error; a failure of the proposer, the
\* submission or the execution leaves its tag (error, proposal_failed,
\* execution_failed) and the cycle still ends as a success; the tag executed
\* is given only to a rebalance the ledger executed.
C12_NeverRaises ==
    /\ cyclesStarted =
          CYCLE_COUNTER.success + CYCLE_COUNTER.error
            + Cardinality({t \in Starters : cycleStatus[t] = "running"})
    /\ \A t \in Starters :
          /\ pc[t] = "done" => cycleStatus[t] \in {"success", "error"}
          /\ pc[t] \notin {"idle", "done"} => cycleStatus[t] = "running"
          /\ proposal[t] = "raised" =>
                (tag[t] = "error" /\ cycleStatus[t] = "success")
          /\ submitted[t] \notin {"none", "confirmed"} =>
                (tag[t] = "proposal_failed" /\ cycleStatus[t] = "success")
          /\ tag[t] = "executed" =>
                /\ proposal_id[t] \in execSent[t]
                /\ ledgerProposals[proposal_id[t]].executed
          /\ (pc[t] = "done" /\ gate[t] = "open" /\ proposal[t] = "some") =>
                tag[t] \in {"proposal_failed", "execution_failed",
                            "pending_approval", "executed"}

\* C12 witness: after a cycle that failed, a later cycle ran to its end, and
\* the timeout of its submission was tagged.
C12_Witness ==
    \E t \in Starters :
        /\ CYCLE_COUNTER.error = 1
        /\ cycleNo[t] = 2
        /\ pc[t] = "done"
        /\ cycleStatus[t] = "success"
        /\ submitted[t] = "timeout"
        /\ tag[t] = "proposal_failed"

\* C13: the last_cycle_time, last_risk_score and last_risk_level get_status
\* returns were written by one and the same cycle (or are all None).
C13_StatusFromOneCycle ==
    /\ StatusSources.last_risk_score = StatusSources.last_cycle_time
    /\ StatusSources.last_risk_level = StatusSources.last_cycle_time
    /\ GetStatus.last_cycle_time = {} <=> GetStatus.last_risk_score = {}

\* C14: every proposal propose_rebalance returns has an amount above 0 and
\* at most 15% of TVL (tvl x 1500 / 10000); an amount that is 0 or less after
\* the clamp gives no proposal.
C14_ProposalBounded ==
    pr_result # <<>> =>
        LET r == pr_result[1] IN
        r.kind = "proposal" =>
            /\ r.amount > 0
            /\ r.amount <= pr_ledger.totalAssets * 1500 * r.den

\* C14 witness: a proposal whose amount is exactly 15% of TVL.
C14_Witness ==
    /\ pr_result # <<>>
    /\ pr_result[1].kind = "proposal"
    /\ pr_result[1].amount = pr_ledger.totalAssets * 1500 * pr_result[1].den

\* C15: for every proposal returned, the destination's deposit plus the
\* amount is at most the destination's max allocation times TVL, and the
\* amount after the clamp is never above the amount before it.
C15_DestinationCap ==
    pr_result # <<>> =>
        LET r == pr_result[1] IN
        r.kind = "proposal" =>
            LET to == pr_ledger.strategies[r.to_strategy] IN
            /\ to.totalDeposited * r.den * 10000 + r.amount
                  <= to.maxAllocation * pr_ledger.totalAssets * r.den
            /\ r.amount <= r.unclamped

\* C15 witness: a proposal that the clamp lowered.
C15_Witness ==
    /\ pr_result # <<>>
    /\ pr_result[1].kind = "proposal"
    /\ pr_result[1].amount < pr_result[1].unclamped

\* C16: when the destination's cap does not bind, the amount of the proposal
\* is min(from.total_deposited x deviation, tvl x 1500 / 10000).
C16_AmountFormula ==
    pr_result # <<>> =>
        LET r == pr_result[1] IN
        r.kind = "proposal" =>
            LET from == pr_ledger.strategies[r.from_strategy]
                to == pr_ledger.strategies[r.to_strategy]
                by_deviation == from.totalDeposited * r.max_deviation
                by_limit == pr_ledger.totalAssets * 1500 * r.den
                least == IF by_deviation <= by_limit
                         THEN by_deviation ELSE by_limit
            IN  (to.totalDeposited * r.den * 10000 + least
                    <= to.maxAllocation * pr_ledger.totalAssets * r.den) =>
                    r.amount = least

\* C16 witness: TVL 10,000,000, source at 4000 bps holding 4,000,000 with a
\* deviation of 1500 bps, destination at 1000 bps with a target of 2500 bps
\* and a cap that does not bind: the amount is 600,000.
C16_Witness ==
    /\ pr_result # <<>>
    /\ pr_result[1].kind = "proposal"
    /\ pr_ledger.totalAssets = 100
    /\ LET r == pr_result[1]
           from == pr_ledger.strategies[r.from_strategy]
           to == pr_ledger.strategies[r.to_strategy]
       IN  /\ from.allocation = 4000
           /\ from.totalDeposited = 40
           /\ r.max_deviation = 1500 * r.den
           /\ to.allocation = 1000
           /\ to.maxAllocation = 5000
           /\ Deviation(GetCurrentAllocations(pr_ledger.strategies)[r.to_strategy],
                        CalculateOptimalAllocation(
                            GetCurrentAllocations(pr_ledger.strategies)))
                = (0 - 1500) * r.den
           /\ r.amount = 6 * r.den * 10000

\* C17 (as the code has it): for TVL 10,000,000, a source holding 4,000,000
\* with a deviation of 1500 bps and a destination holding 1,000,000 with a max
\* allocation of 2000 bps, the cap of 2,000,000 is not reached and the amount
\* stays 600,000.
C17_ClampExampleKeepsAmount ==
    pr_result # <<>> =>
        LET r == pr_result[1] IN
        (/\ r.kind = "proposal"
         /\ pr_ledger.totalAssets = 100
         /\ pr_ledger.strategies[r.from_strategy].totalDeposited = 40
         /\ r.max_deviation = 1500 * r.den
         /\ pr_ledger.strategies[r.to_strategy].totalDeposited = 10
         /\ pr_ledger.strategies[r.to_strategy].maxAllocation = 2000) =>
            /\ r.amount = 6 * r.den * 10000
            /\ r.amount = r.unclamped

\* C17 witness: the proposal of that example.
C17_Witness ==
    /\ pr_result # <<>>
    /\ pr_result[1].kind = "proposal"
    /\ pr_ledger.totalAssets = 100
    /\ pr_ledger.strategies[pr_result[1].from_strategy].totalDeposited = 40
    /\ pr_result[1].max_deviation = 1500 * pr_result[1].den
    /\ pr_ledger.strategies[pr_result[1].to_strategy].totalDeposited = 10
    /\ pr_ledger.strategies[pr_result[1].to_strategy].maxAllocation = 2000
    /\ pr_result[1].amount = 6 * pr_result[1].den * 10000

\* C17 as stated: in that example the clamp brings the amount to 1,000,000.
C17_ClampExample ==
    pr_result # <<>> =>
        LET r == pr_result[1] IN
        (/\ r.kind = "proposal"
         /\ pr_ledger.totalAssets = 100
         /\ pr_ledger.strategies[r.from_strategy].totalDeposited = 40
         /\ r.max_deviation = 1500 * r.den
         /\ pr_ledger.strategies[r.to_strategy].totalDeposited = 10
         /\ pr_ledger.strategies[r.to_strategy].maxAllocation = 2000) =>
            r.amount = 10 * r.den * 10000

C20_TargetWithinMax ==
    opt_result # <<>> =>
        LET optimal == opt_result[1] IN
        \A i \in 1 .. Len(opt_allocations) :
            optimal.num[opt_allocations[i].name]
                <= opt_allocations[i].max_allocation * optimal.den

\* C21: every cycle that has an analysis, the degraded one included, has that
\* analysis as a row of the audit log, and once past the publish step has run
\* _publish_risk_update for it.
C21_AnalysisRecorded ==
    \A t \in Starters :
        analysis[t].kind # "none" =>
            /\ audited[t]
            /\ pc[t] # "publish" => published[t] \in PublishOutcomes

\* C22: when the unwind batch ends, every flagged strategy has a row in the
\* audit log, whether its unwind went through or failed, and the row of a
\* strategy whose tx was sent carries that tx.
C22_EveryOutcomeRecorded ==
    uw_pc = "done" =>
        \A k \in 1 .. Len(uw_strategies) :
            \E r \in 1 .. Len(uw_log) :
                /\ uw_log[r].strategy = uw_strategies[k]
                /\ k \in uw_sent => uw_log[r].tx = k

ProposerView ==
    LET allocations == GetCurrentAllocations(pr_ledger.strategies)
        optimal == CalculateOptimalAllocation(allocations)
    IN  [deviation |-> [i \in 1 .. Len(allocations) |->
                           Deviation(allocations[i], optimal)],
         found |-> FindLargestDeviation(allocations, optimal, 1,
                      [max_deviation |-> 0, from_strat |-> 0, to_strat |-> 0])]

\* C24: whenever one strategy is above its target and another below, the loop
\* of propose_rebalance finds a from/to pair, and the destination is the
\* strategy with the most negative deviation, whatever the order of the
\* strategies and however small the shortfall is beside the excess.
C24_DestinationIndependent ==
    pr_result # <<>> =>
        LET v == ProposerView
            above == {i \in DOMAIN v.deviation : v.deviation[i] > 0}
            below == {i \in DOMAIN v.deviation : v.deviation[i] < 0}
        IN  (above # {} /\ below # {}) =>
                /\ v.found.from_strat # 0
                /\ v.found.to_strat # 0
                /\ \A i \in below :
                      v.deviation[v.found.to_strat] <= v.deviation[i]

\* C25: the source propose_rebalance picks is the strategy with the largest
\* positive deviation among all strategies (none when no strategy is above
\* its target), whatever the order of the strategies; a proposal names it.
C25_SourceLargestDeviation ==
    pr_result # <<>> =>
        LET v == ProposerView
            above == {i \in DOMAIN v.deviation : v.deviation[i] > 0}
            r == pr_result[1]
        IN  /\ above = {} <=> v.found.from_strat = 0
            /\ above # {} =>
                  /\ v.found.from_strat \in above
                  /\ \A i \in DOMAIN v.deviation :
                        v.deviation[i] <= v.deviation[v.found.from_strat]
                  /\ v.found.max_deviation = v.deviation[v.found.from_strat]
            /\ r.kind = "proposal" =>
                  /\ r.from_strategy =
                        pr_ledger.strategies[v.found.from_strat].name
                  /\ r.max_deviation = v.deviation[v.found.from_strat]

\* C25 witness: a proposal whose source comes after another strategy that is
\* above its target by less.
C25_Witness ==
    /\ pr_result # <<>>
    /\ pr_result[1].kind = "proposal"
    /\ \E i \in 1 .. Len(pr_ledger.strategies) :
          /\ i < pr_result[1].from_strategy
          /\ ProposerView.deviation[i] > 0
          /\ ProposerView.deviation[i]
                < ProposerView.deviation[pr_result[1].from_strategy]

\* C26: every read of the ledger in one cycle (the fetch, the cooldown check,
\* the proposer's cooldown check, allocations and TVL, the submission) sees
\* the ledger state the fetch saw.
C26_SingleSnapshot ==
    \A i \in 1 .. Len(ledgerReads) : ledgerReads[i] = ledgerReads[1]

\* C27: a cycle that holds the degraded analysis (every analyze_risk call
\* raised) has run no emergency unwind and has considered no rebalance: no
\* cooldown check, proposal, submission or execution, no rebalance tag.
C27_DegradedDoesNothing ==
    \A t \in Starters :
        analysis[t].kind = "degraded" =>
            /\ pc[t] \in {"publish", "done"}
            /\ unwindRuns[t] = 0
            /\ gate[t] = "none"
            /\ proposal[t] = "none"
            /\ submitted[t] = "none"
            /\ proposal_id[t] = NoProposalId
            /\ execSent[t] = {}
            /\ tag[t] = "none"

\* C27 witness: a degraded cycle that ran to its end as a success.
C27_Witness ==
    \E t \in Starters :
        /\ pc[t] = "done"
        /\ analysis[t].kind = "degraded"
        /\ cycleStatus[t] = "success"
        /\ published[t] = "sent"

\* C28: a cycle whose submission was confirmed is never tagged
\* proposal_failed; it ends tagged by the auto-approve decision
\* (pending_approval, or executed / execution_failed), whatever id the ledger
\* gave the proposal, 0 included.
C28_ConfirmedForEveryId ==
    \A t \in Starters :
        (pc[t] = "done" /\ submitted[t] = "confirmed") =>
            /\ tag[t] # "proposal_failed"
            /\ tag[t] \in {"pending_approval", "executed", "execution_failed"}

\* C29: the ledger never holds two proposals of the control loop that are
\* both not executed: while one is pending, no cycle submits another.
C29_OnePendingProposal ==
    \A id1, id2 \in DOMAIN ledgerProposals :
        (~ledgerProposals[id1].executed /\ ~ledgerProposals[id2].executed) =>
            id1 = id2

\* C30: the unwind loop runs only in an analyze_risk call that wrote its
\* analysis to the audit log and returned it: while the retry loop is still
\* retrying no unwind of the cycle has run; and when the audit insert failed
\* in all 3 attempts (each followed by its sleep) the retry loop returns the
\* degraded analysis, not logged, with no unwind run, whatever the assessor
\* had answered.
C30_UnwindAfterAudit ==
    \A t \in Starters :
        /\ unwindRuns[t] >= 1 => (audited[t] /\ analysis[t].kind = "assessor")
        /\ pc[t] = "assess" => unwindRuns[t] = 0
        /\ (/\ pc[t] = "publish"
            /\ calls[t] = 3
            /\ Len(sleeps[t]) = 3
            /\ \A f \in failures[t] : f.at = "audit") =>
               /\ analysis[t] = ConservativeAnalysis
               /\ ~audited[t]
               /\ unwindRuns[t] = 0

\* C30 witness: three attempts, each with an assessor answer that calls for
\* the unwind, each failing at the audit insert: the degraded analysis.
C30_Witness ==
    \E t \in Starters :
        /\ pc[t] = "publish"
        /\ calls[t] = 3
        /\ Len(sleeps[t]) = 3
        /\ failures[t] = {[at |-> "audit", emergency |-> TRUE]}
        /\ analysis[t].kind = "degraded"
        /\ unwindRuns[t] = 0

\* C31: in a cycle the proposer is called only after can_rebalance answered
\* True, and a cycle whose cooldown check answered False ends there as a
\* success: propose_rebalance is not called, so no proposal is computed,
\* logged or submitted, and nothing is executed or tagged.
C31_GateBeforeProposer ==
    \A t \in Starters :
        /\ proposal[t] # "none" => gate[t] = "open"
        /\ pc[t] \in {"propose", "submit", "execute"} => gate[t] = "open"
        /\ gate[t] = "closed" =>
              /\ pc[t] = "done"
              /\ cycleStatus[t] = "success"
              /\ proposal[t] = "none"
              /\ submitted[t] = "none"
              /\ proposal_id[t] = NoProposalId
              /\ execSent[t] = {}
              /\ tag[t] = "none"

\* C31 witness: a cycle of acceptable risk that the cooldown stopped.
C31_Witness ==
    \E t \in Starters :
        /\ gate[t] = "closed"
        /\ pc[t] = "done"
        /\ analysis[t].kind = "assessor"
        /\ analysis[t].risk_level = "NORMAL"
        /\ published[t] = "sent"

\* C32: within one cycle submit_proposal_onchain runs at most once and
\* execute_approved_proposal at most once: a step adds at most one proposal
\* to the ledger, and it is the one submission of a cycle that had made none;
\* a cycle's executeRebalance is the first and only one it sends, for the
\* proposal its submission returned.
C32_OneWritePerCycle ==
    [][/\ Cardinality(DOMAIN ledgerProposals')
             <= Cardinality(DOMAIN ledgerProposals) + 1
       /\ DOMAIN ledgerProposals' # DOMAIN ledgerProposals =>
             \E t \in Starters :
                 /\ submitted[t] = "none"
                 /\ submitted'[t] # "none"
                 /\ proposal[t] = "some"
       /\ \A t \in Starters :
             /\ (submitted[t] # "none" /\ pc'[t] # "idle") =>
                   (submitted'[t] = submitted[t] /\ pc'[t] # "submit")
             /\ execSent'[t] # execSent[t] =>
                   \/ execSent'[t] = {}
                   \/ /\ execSent[t] = {}
                      /\ execSent'[t] = {proposal_id[t]}]_vars

\* C32 witness: a cycle that made its one proposal and its one execution.
C32_Witness ==
    \E t \in Starters :
        /\ pc[t] = "done"
        /\ submitted[t] = "confirmed"
        /\ Cardinality(execSent[t]) = 1
        /\ Cardinality(DOMAIN ledgerProposals) = 2

\* C33: execute_approved_proposal sends executeRebalance only when the
\* ledger shows the proposal approved and not executed and the idle balance
\* is at least 5% of totalAssets; in every other case it returns False and
\* sends nothing.
C33_ExecuteOnlyWhenAllowed ==
    ex_result # <<>> =>
        LET r == ex_result[1]
            allowed == /\ ex_env.approved
                       /\ ~ex_env.executed
                       /\ ex_env.idle * BASIS_POINTS
                              >= MIN_IDLE_BUFFER_BPS * ex_env.tvl
        IN  /\ r.sent => allowed
            /\ ~allowed => (~r.returns /\ ~r.sent /\ ~r.executed)
            /\ r.returns => r.sent

\* C33 witness: a call that sent the transaction, and was right to, with the
\* idle balance at exactly 5% of totalAssets.
C33_Witness ==
    /\ ex_result # <<>>
    /\ ex_env.tvl > 0
    /\ ex_result[1].sent
    /\ ex_result[1].returns
    /\ ex_env.idle * BASIS_POINTS = MIN_IDLE_BUFFER_BPS * ex_env.tvl

\* C34: the retry loop ends with an analysis after at most MAX_RETRIES calls
\* of analyze_risk.  While it runs every call so far has failed; once it has
\* returned, either the last call made succeeded, no call followed it and
\* the cycle's analysis is the one that call returned, or all MAX_RETRIES
\* calls failed and the analysis is the synthesized one.
C34_AssessEndsWithinRetries ==
    \A t \in Starters :
        /\ calls[t] <= MAX_RETRIES
        /\ pc[t] = "assess" =>
              /\ calls[t] < MAX_RETRIES
              /\ Len(sleeps[t]) = calls[t]
              /\ analysis[t] = NoAnalysis
        /\ pc[t] = "publish" =>
              /\ analysis[t] # NoAnalysis
              /\ calls[t] >= 1
              /\ \/ /\ Len(sleeps[t]) = calls[t] - 1
                    /\ analysis[t].kind # "degraded"
                    /\ analysis[t] \in {r.a : r \in {x \in AttemptResults :
                                                        ~x.raised}}
                 \/ /\ Len(sleeps[t]) = calls[t]
                    /\ calls[t] = MAX_RETRIES
                    /\ analysis[t] = ConservativeAnalysis

\* C34 witness: the second attempt succeeded after the first failed, and the
\* cycle goes on with its analysis.
C34_Witness ==
    \E t \in Starters :
        /\ pc[t] = "publish"
        /\ calls[t] = 2
        /\ Len(sleeps[t]) = 1
        /\ analysis[t].kind # "degraded"

\* C35: in one cycle the loop of _execute_emergency_unwind runs at most once,
\* and never in an attempt that is retried: while the retry loop is still
\* running it has not run at all.
C35_UnwindNotRepeated ==
    \A t \in Starters :
        /\ unwindRuns[t] <= 1
        /\ pc[t] = "assess" => unwindRuns[t] = 0

\* C35 witness: an attempt failed and was retried, and the attempt that
\* succeeded ran the unwind.
C35_Witness ==
    \E t \in Starters :
        /\ pc[t] = "publish"
        /\ Len(sleeps[t]) >= 1
        /\ calls[t] > Len(sleeps[t])
        /\ unwindRuns[t] = 1

\* C36: when the vault data was fetched, a failure of the signal fetch, of
\* the oracle update or of the publication does not abort the cycle: every
\* later step is entered, the rebalance check is entered exactly when the
\* risk level permits, and the cycle is counted as a success.
C36_SideFailuresSwallowed ==
    (sd_result # <<>> /\ ~sd_env.fails["fetch"]) =>
        LET r == sd_result[1]
            entered == {r.ran[i] : i \in 1 .. Len(r.ran)}
        IN  /\ {"signals", "assess", "oracle", "publish", "count"}
                   \subseteq entered
            /\ "rebalance" \in entered <=>
                   sd_env.level \notin {"HIGH_RISK", "CRITICAL"}
            /\ r.status = "success"

\* C36 witness: the three side steps all failed in a cycle of acceptable
\* risk, which went on to the rebalance check and was counted a success.
C36_Witness ==
    /\ sd_result # <<>>
    /\ ~sd_env.fails["fetch"]
    /\ sd_env.fails["signals"]
    /\ sd_env.fails["oracle"]
    /\ sd_env.fails["publish"]
    /\ sd_env.level = "NORMAL"
    /\ sd_result[1].status = "success"
    /\ sd_result[1].ran = CycleSteps

C38_StatusMovesForward ==
    \A i \in DOMAIN db_rows :
        LET row == db_rows[i] IN
        /\ row.history \in {<<"proposed">>,
                            <<"proposed", "submitted">>,
                            <<"proposed", "submitted", "executed">>}
        /\ row.status = row.history[Len(row.history)]
        /\ row.status = "executed" => row.proposal_id # NullId
        /\ row.status = "proposed" => row.proposal_id = NullId

\* C38 witness: a row that went through the three statuses, beside a row
\* submitted without a proposal id and a row still proposed.
C38_Witness ==
    /\ \E i \in DOMAIN db_rows :
          db_rows[i].history = <<"proposed", "submitted", "executed">>
    /\ \E i \in DOMAIN db_rows :
          db_rows[i].status = "submitted" /\ db_rows[i].proposal_id = NullId
    /\ \E i \in DOMAIN db_rows : db_rows[i].status = "proposed"

=============================================================================
